---- MODULE Spec2Model ----
(***************************************************************************)
(* Incremental ingestion orchestrator of the parser service                *)
(* (src/parser/parser): the crawl loop ParserOrchestrator.run, the entity  *)
(* pipeline ParserOrchestrator.process_anime, the StateManager and the     *)
(* pure helpers of parser.utils.                                           *)
(*                                                                         *)
(* Encoding of Python values.  Every field value of a payload is a string  *)
(* token (numbers by their decimal text, booleans as "True"/"False");      *)
(* None among field values is the token None, None in place of a dict is   *)
(* NoneDict.  A dict is a function from its keys (strings) to its values.  *)
(***************************************************************************)
EXTENDS Integers, Sequences, FiniteSets, TLC

\* ------------------------------------------------------------------ bounds
MaxRuns == 2
MaxThreshold == 2
MaxConcurrency == 2
MaxPagesArg == 1

\* ------------------------------------------------------- program constants
PAGE_LIMIT == 100

\* ------------------------------------------------------------ Python values
None == "None"
NoneDict == [none |-> "None"]
EmptyDict == [k \in {} |-> None]

PyBool(b) == IF b THEN "True" ELSE "False"

Digits == <<"0", "1", "2", "3", "4", "5", "6", "7", "8", "9">>

RECURSIVE Str(_)
Str(n) == IF n < 10 THEN Digits[n + 1] ELSE Str(n \div 10) \o Digits[(n % 10) + 1]

\* dict.get(key) with the default None
Get(d, k) == IF k \in DOMAIN d THEN d[k] ELSE None

\* dict.get(key) where the values are dicts
GetDict(d, k) == IF k \in DOMAIN d THEN d[k] ELSE NoneDict

\* d[k] = v
Put(d, k, v) == [x \in DOMAIN d \cup {k} |-> IF x = k THEN v ELSE d[x]]

\* ------------------------------------------------------------- parser.utils
generate_source_id(shikimori_id) == Str(shikimori_id)

\* Variant of generate_episode_source_id: no separator.
generate_episode_source_id_joined(source_id, episode_number) == source_id \o Str(episode_number)

generate_episode_source_id(source_id, episode_number) ==
    source_id \o ":" \o Str(episode_number)

compute_diff(new, old) ==
    IF old = NoneDict \/ DOMAIN old = {}
    THEN [k \in DOMAIN new |-> [old |-> None, new |-> new[k]]]
    ELSE [k \in {x \in DOMAIN new : Get(old, x) # new[x]} |->
             [old |-> Get(old, k), new |-> new[k]]]

\* A raw url is [ws, stem, suffix]: surrounding whitespace, the text before
\* the extension, the extension as written.
UrlText(u) == (IF u.ws THEN " " ELSE "") \o u.stem \o u.suffix \o (IF u.ws THEN " " ELSE "")

Strip(u) == [u EXCEPT !.ws = FALSE]

Lower(suffix) == IF suffix = ".M3U8" THEN ".m3u8" ELSE suffix

\* Variant of normalize_video_source: the extension is not looked at.
normalize_video_source_any(url, source_name, priority) == IF url = NoneDict \/ UrlText(Strip(url)) = "" THEN NoneDict ELSE [type |-> "hls", url |-> UrlText(Strip(url)), source_name |-> source_name, priority |-> Str(priority)]

normalize_video_source(url, source_name, priority) ==
    IF url = NoneDict \/ UrlText(url) = "" THEN NoneDict
    ELSE IF UrlText(Strip(url)) = "" THEN NoneDict
    ELSE IF Lower(Strip(url).suffix) # ".m3u8" THEN NoneDict
    ELSE [type |-> "hls", url |-> UrlText(Strip(url)),
          source_name |-> source_name, priority |-> Str(priority)]

\* ------------------------------------------------------ parser.orchestrator
_video_key(episode_source_id, player_data) ==
    episode_source_id \o "|" \o player_data["url"] \o "|" \o player_data["source_name"]

\* Variant of _build_episode_payload: every episode is marked available.
_build_episode_payload_available(episode_source_id, ep, is_available) == [source_episode_id |-> episode_source_id, number |-> Str(ep.number), title |-> ep.title, is_available |-> "True"]

_build_episode_payload(episode_source_id, ep, is_available) ==
    [source_episode_id |-> episode_source_id, number |-> Str(ep.number),
     title |-> ep.title, is_available |-> PyBool(is_available)]

\* ------------------------------------------------------------ clients
\* ShikimoriClient.parse_anime_data, for raw data [id, name, status]; the
\* raw fields this model leaves out (russian, japanese, english, description,
\* aired_on, image, genres) are absent, so their parsed values are None.
status_map(raw_status) ==
    CASE raw_status = "ongoing" -> "ongoing"
      [] raw_status = "released" -> "completed"
      [] raw_status = "anons" -> "upcoming"
      [] OTHER -> None

parse_anime_data(shikimori_data) ==
    [source_id |-> Str(shikimori_data.id), title |-> shikimori_data.name,
     alternative_titles |-> None, description |-> None, year |-> None,
     status |-> status_map(shikimori_data.status), poster |-> None, genres |-> None]

\* The anime_payload dict built from anime_data in process_anime.
AnimePayload(anime_data) ==
    [k \in {"title", "alternative_titles", "description", "year", "status",
            "poster", "genres", "source_id"} |-> Get(anime_data, k)]

\* KodikClient.extract_shikimori_id: an item carries its id or 0 (no id).
extract_shikimori_id(kodik_item) == kodik_item.shikimori_id

RECURSIVE SortedSeq(_)
SortedSeq(S) ==
    IF S = {} THEN <<>>
    ELSE LET m == CHOOSE x \in S : \A y \in S : x <= y
         IN <<m>> \o SortedSeq(S \ {m})

\* Indices of the items parse_episodes does not skip: a link and episodes.
UsableItems(kodik_results) ==
    {i \in DOMAIN kodik_results :
        /\ kodik_results[i].link # NoneDict
        /\ UrlText(kodik_results[i].link) # ""
        /\ DOMAIN kodik_results[i].episodes # {}}

\* KodikClient.parse_episodes: an item is [link, episodes], episodes a map
\* from episode number to title (the seasons of an item merged, as the code
\* keys episodes_data by number alone).  The first item naming a number sets
\* the title, every item naming it appends its link; sorted by number.
parse_episodes(kodik_results) ==
    LET nums == UNION {DOMAIN kodik_results[i].episodes : i \in UsableItems(kodik_results)}
        items(n) == SortedSeq({i \in UsableItems(kodik_results) :
                                   n \in DOMAIN kodik_results[i].episodes})
        episode(n) == [number |-> n,
                       title |-> kodik_results[items(n)[1]].episodes[n],
                       translations |-> [j \in DOMAIN items(n) |->
                                            kodik_results[items(n)[j]].link]]
        order == SortedSeq(nums)
    IN [j \in DOMAIN order |-> episode(order[j])]

\* ------------------------------------------------------------ the sources
Url(stem, suffix) == [ws |-> FALSE, stem |-> stem, suffix |-> suffix]
Padded(stem, suffix) == [ws |-> TRUE, stem |-> stem, suffix |-> suffix]

Ids == {1, 2}
Versions == {"v1", "v2"}

\* Metadata source: the record of an entity in a version of the source.
ShikimoriData(id, ver) ==
    IF id = 1
    THEN [id |-> 1, name |-> "A", status |-> IF ver = "v1" THEN "ongoing" ELSE "released"]
    ELSE [id |-> 2, name |-> "B", status |-> "released"]

\* Catalog source: the search results (one item per translation) of an entity.
\* Entity 1: episode 1 has the link a twice (once padded) and a non-HLS link;
\* episode 2 has no HLS link in v1 and the link b in v2.  Entity 2: one
\* episode with one HLS link.
KodikResults(id, ver) ==
    IF id = 1
    THEN << [link |-> Url("cdn/a", ".m3u8"), episodes |-> (1 :> "E1")],
            [link |-> Padded("cdn/a", ".m3u8"), episodes |-> (1 :> "E1")],
            [link |-> IF ver = "v1" THEN Url("cdn/x", ".mp4") ELSE Url("cdn/b", ".M3U8"),
             episodes |-> (2 :> None)] >>
    ELSE << [link |-> Url("cdn/c", ".m3u8"), episodes |-> (1 :> "E1")] >>

Item(id) == [shikimori_id |-> id]

\* Catalogs: the pages of items a source lists and the total it reports.
\* The first lists entity 1 on two pages and has a page of items without id;
\* the second lists entity 1 twice on one page.
Catalogs ==
    { [pages |-> << <<Item(1), Item(2)>>, <<Item(0)>>, <<Item(1)>> >>, total |-> 201],
      [pages |-> << <<Item(1), Item(1)>> >>, total |-> 2] }

\* The response of the catalog source to list_anime(page).
CatalogPage(cat, page) ==
    [results |-> IF page \in DOMAIN cat.pages THEN cat.pages[page] ELSE <<>>,
     total |-> cat.total]

\* ------------------------------------------------------------ parser.state
\* A state file is missing, unparseable, or holds a JSON document.
NoFile == [kind |-> "missing"]
CorruptFile == [kind |-> "corrupt"]

FreshState == [last_run |-> None, last_page |-> 0, processed_anime |-> EmptyDict]

\* json.dump of the state dict.  A JSON value is a scalar [j, text] (null, or
\* the text of a string, number or boolean), the number of last_page written
\* in decimal, or an object [j, members]; None is written as null.
JsonScalar(v) == IF v = None THEN [j |-> "null", text |-> "null"] ELSE [j |-> "value", text |-> v]

JsonNumber(n) == [j |-> "number", text |-> Str(n)]

JsonDict(d) == [j |-> "object", members |-> [k \in DOMAIN d |-> JsonScalar(d[k])]]

JsonDictOfDicts(d) == [j |-> "object", members |-> [k \in DOMAIN d |-> JsonDict(d[k])]]

JsonEntry(entry) ==
    [j |-> "object",
     members |-> [k \in DOMAIN entry |->
                     IF k = "anime_payload" THEN JsonDict(entry[k])
                     ELSE IF k \in {"episodes", "videos"} THEN JsonDictOfDicts(entry[k])
                     ELSE JsonScalar(entry[k])]]

json_dump(st) ==
    [kind |-> "json",
     doc |-> [j |-> "object",
              members |-> [last_run |-> JsonScalar(st.last_run),
                           last_page |-> JsonNumber(st.last_page),
                           processed_anime |->
                               [j |-> "object",
                                members |-> [k \in DOMAIN st.processed_anime |->
                                                JsonEntry(st.processed_anime[k])]]]]]

\* json.load: null is read as None, a number from its decimal text, an
\* object as a dict.
PyScalar(node) == IF node.j = "null" THEN None ELSE node.text

PyInt(node) == CHOOSE n \in 0 .. 99 : Str(n) = node.text

PyDict(node) == [k \in DOMAIN node.members |-> PyScalar(node.members[k])]

PyDictOfDicts(node) == [k \in DOMAIN node.members |-> PyDict(node.members[k])]

PyEntry(node) ==
    [k \in DOMAIN node.members |->
        IF k = "anime_payload" THEN PyDict(node.members[k])
        ELSE IF k \in {"episodes", "videos"} THEN PyDictOfDicts(node.members[k])
        ELSE PyScalar(node.members[k])]

\* A Python list where a dict is expected.
PyList == [list |-> "[]"]

\* The document save_state writes: an object with the three keys.
FullDocument(doc) ==
    /\ doc.j = "object"
    /\ DOMAIN doc.members = {"last_run", "last_page", "processed_anime"}
    /\ doc.members.last_page.j = "number"
    /\ doc.members.processed_anime.j = "object"

\* The value json.load gives the member k of the top-level object.
PyMember(k, node) ==
    IF k = "processed_anime"
    THEN IF node.j = "null" THEN NoneDict
         ELSE [e \in DOMAIN node.members |-> PyEntry(node.members[e])]
    ELSE IF node.j = "number" THEN PyInt(node)
    ELSE PyScalar(node)

\* json.load returns whatever the document holds: a list for an array, and
\* for an object a dict with the members the object has.
json_load(file) ==
    IF file.doc.j = "array" THEN PyList
    ELSE IF FullDocument(file.doc)
    THEN [last_run |-> PyScalar(file.doc.members.last_run),
          last_page |-> PyInt(file.doc.members.last_page),
          processed_anime |-> [k \in DOMAIN file.doc.members.processed_anime.members |->
                                  PyEntry(file.doc.members.processed_anime.members[k])]]
    ELSE [k \in DOMAIN file.doc.members |-> PyMember(k, file.doc.members[k])]

\* Variant of _load_state: the file is never read.
_load_state_fresh(file) == FreshState

\* StateManager._load_state
_load_state(file) ==
    IF file.kind = "missing" THEN FreshState
    ELSE IF file.kind = "json" THEN json_load(file)
    ELSE FreshState

\* state.get("processed_anime", {}).get(...) raises AttributeError where the
\* state is a list or the member is None.
get_anime_entry_raises(st) ==
    \/ st = PyList
    \/ "processed_anime" \in DOMAIN st /\ st.processed_anime = NoneDict

\* StateManager.get_anime_entry: the stored entry, or {} when absent.
get_anime_entry(st, source_id) ==
    IF "processed_anime" \in DOMAIN st /\ source_id \in DOMAIN st.processed_anime
    THEN st.processed_anime[source_id] ELSE EmptyDict

\* dict.update: the keys of upd overwrite those of entry.
Update(entry, upd) ==
    [k \in DOMAIN entry \cup DOMAIN upd |-> IF k \in DOMAIN upd THEN upd[k] ELSE entry[k]]

\* state["processed_anime"].get(...) raises TypeError where the state is a
\* list, KeyError where the key is missing, AttributeError where the member
\* is None.
mark_anime_processed_raises(st) ==
    \/ st = PyList
    \/ "processed_anime" \notin DOMAIN st
    \/ st.processed_anime = NoneDict

\* StateManager.mark_anime_processed; an optional payload that is NoneDict
\* is left out of the second update.  now is the clock reading.
mark_anime_processed(st, source_id, title, episodes_count, anime_payload, episodes_payload, videos_payload, now) ==
    LET entry0 == get_anime_entry(st, source_id)
        entry1 == Update(entry0, [title |-> title,
                                  episodes_count |-> Str(episodes_count),
                                  timestamp |-> now])
        optional_fields == [anime_payload |-> anime_payload,
                            episodes |-> episodes_payload,
                            videos |-> videos_payload]
        given == {k \in DOMAIN optional_fields : optional_fields[k] # NoneDict}
        entry2 == Update(entry1, [k \in given |-> optional_fields[k]])
    IN [st EXCEPT !.processed_anime = Put(st.processed_anime, source_id, entry2)]

\* state["last_page"] = page raises TypeError where the state is a list.
set_last_page_raises(st) == st = PyList

\* StateManager.set_last_page
set_last_page(st, page) ==
    IF "last_page" \in DOMAIN st THEN [st EXCEPT !.last_page = page]
    ELSE Put(st, "last_page", page)

\* ----------------------------------------- process_anime, the synchronous parts
\* Lines 143-158: the players of one episode, deduplicated by _video_key, the
\* priority of a player being the index of its translation.
\* Variant of NormalizedVideos: seen_keys is not consulted.
RECURSIVE NormalizedVideosAll(_, _, _, _, _)
NormalizedVideosAll(episode_source_id, translations, idx, seen_keys, normalized_videos) ==
    IF idx > Len(translations) THEN normalized_videos
    ELSE LET player == normalize_video_source(translations[idx], "kodik", idx - 1)
         IN IF player = NoneDict
            THEN NormalizedVideosAll(episode_source_id, translations, idx + 1,
                                     seen_keys, normalized_videos)
            ELSE NormalizedVideosAll(episode_source_id, translations, idx + 1,
                                     seen_keys, Append(normalized_videos, player))

RECURSIVE NormalizedVideos(_, _, _, _, _)
NormalizedVideos(episode_source_id, translations, idx, seen_keys, normalized_videos) ==
    IF idx > Len(translations) THEN normalized_videos
    ELSE LET player == normalize_video_source(translations[idx], "kodik", idx - 1)
         IN IF player = NoneDict
            THEN NormalizedVideos(episode_source_id, translations, idx + 1,
                                  seen_keys, normalized_videos)
            ELSE IF _video_key(episode_source_id, player) \in seen_keys
            THEN NormalizedVideos(episode_source_id, translations, idx + 1,
                                  seen_keys, normalized_videos)
            ELSE NormalizedVideos(episode_source_id, translations, idx + 1,
                                  seen_keys \cup {_video_key(episode_source_id, player)},
                                  Append(normalized_videos, player))

EpisodeVideos(source_id, ep) ==
    NormalizedVideos(generate_episode_source_id(source_id, ep.number),
                     ep.translations, 1, {}, <<>>)

\* Variant of EpisodeGate: every episode is put into the batch.
EpisodeGateAlways(previous_episode_payload, ep_diff) == TRUE

\* Line 167: is the episode put into the batch.
EpisodeGate(previous_episode_payload, ep_diff) ==
    previous_episode_payload = NoneDict \/ DOMAIN ep_diff # {}

\* Lines 140-171: the loop over episodes_data.  acc is
\* [episodes_for_import, episodes_state]; the loop writes episodes_state.
RECURSIVE EpisodeLoop(_, _, _, _)
EpisodeLoop(source_id, episodes_data, i, acc) ==
    IF i > Len(episodes_data) THEN acc
    ELSE LET ep == episodes_data[i]
             episode_source_id == generate_episode_source_id(source_id, ep.number)
             is_available == EpisodeVideos(source_id, ep) # <<>>
             episode_payload == _build_episode_payload(episode_source_id, ep, is_available)
             previous_episode_payload == GetDict(acc.episodes_state, episode_source_id)
             ep_diff == compute_diff(episode_payload, previous_episode_payload)
         IN IF EpisodeGate(previous_episode_payload, ep_diff)
            THEN EpisodeLoop(source_id, episodes_data, i + 1,
                    [episodes_for_import |-> Append(acc.episodes_for_import, episode_payload),
                     episodes_state |-> Put(acc.episodes_state, episode_source_id,
                                            episode_payload)])
            ELSE EpisodeLoop(source_id, episodes_data, i + 1, acc)

\* Lines 189-200: the (episode, player) pairs the second loop visits, in order.
RECURSIVE VideoWork(_, _, _)
VideoWork(source_id, episodes_data, i) ==
    IF i > Len(episodes_data) THEN <<>>
    ELSE LET ep == episodes_data[i]
             episode_source_id == generate_episode_source_id(source_id, ep.number)
             videos_for_episode == EpisodeVideos(source_id, ep)
         IN [j \in DOMAIN videos_for_episode |->
                [episode_source_id |-> episode_source_id,
                 player_data |-> videos_for_episode[j]]]
            \o VideoWork(source_id, episodes_data, i + 1)

\* Line 204: is the player skipped.
VideoSkip(previous_video_payload, video_diff) ==
    previous_video_payload # NoneDict /\ DOMAIN video_diff = {}

\* Line 97: is the entity imported.
AnimeGate(previous_anime_payload, anime_diff) ==
    previous_anime_payload = NoneDict \/ DOMAIN anime_diff # {}

\* ------------------------------------------------------------------ state
VARIABLES
    settings,            \* parser.config.settings, as the orchestrator reads it
    catalog,             \* the catalog source
    ver,                 \* the version of the sources during the current run
    stateFile,           \* the file at settings.STATE_PATH
    run,                 \* number of runs started
    rpc,                 \* position of run(): idle, loop, list_anime, gather, closing
    max_pages,           \* argument of run(): {} for None, {k} for the integer k
    page,                \* run(): page
    consecutive_errors,  \* run(): consecutive_errors
    response,            \* run(): response of the last list_anime
    stop,                \* why the loop of the current run ended
    state,               \* StateManager.state
    semaphore,           \* free permits of ParserOrchestrator.semaphore
    tasks,               \* the process_anime coroutines of the current page
    orphans,             \* videos dicts no longer stored but still referenced
    saveErrors,          \* number of save_state calls that failed
    calls,               \* import-API calls issued in the current run
    pageHist,            \* per finished page of the run: had it a success
    savedPage,           \* page of the last save_state call of the run
    unsettled,           \* coroutines still running when gather last returned
    backend,             \* entity and episode records the backend has accepted
    rejected,            \* records whose import failed and the backend does not hold
    forgotten,           \* records found up to date while rejected
    clean,               \* no pipeline and no import call failed in the run
    prevRun,             \* summary of the previous run
    loaded               \* the state as loaded at the start of the run

loopVars == <<rpc, max_pages, page, consecutive_errors, response, stop>>
envVars == <<settings, catalog, ver>>
orchVars == <<settings, catalog, ver, stateFile, run, rpc, max_pages, page,
              consecutive_errors, response, stop, state, semaphore, tasks, orphans,
              saveErrors, calls, pageHist, savedPage, unsettled, clean, backend,
              rejected, forgotten, prevRun, loaded>>

\* The components below the orchestrator are also run on their own: the
\* RateLimiter with its callers, one HTTPClient._request, one StateManager
\* with its file, and compute_diff.
VARIABLES
    clock,               \* time.time(), in ticks
    limiter,             \* the RateLimiter: rate, min_interval, last_request_time
    callers,             \* the coroutines that call RateLimiter.acquire()
    returns,             \* the acquire() calls that have returned, in order
    request,             \* one call of HTTPClient._request
    sm_state,            \* StateManager.state
    sm_file,             \* the file at StateManager.state_path
    sm_pc,               \* position of the process that owns the StateManager
    sm_flushed,          \* the state last written in full by save_state
    sm_call,             \* the mark_anime_processed call just made
    diff_new,            \* compute_diff: argument new
    diff_old,            \* compute_diff: argument old
    diff_out,            \* compute_diff: the value returned, once it has
    cli,                 \* one invocation of the CLI: arguments, position, exit code
    util_call,           \* a call of a function of parser.utils: name and arguments
    util_value,          \* the value the call returned, once it has
    db_anime,            \* backend database: the anime of the import exists
    db_episodes,         \* backend database: the Episode rows of that anime
    db_result            \* the response of the last import_episodes call

limVars == <<clock, limiter, callers, returns>>
reqVars == <<request>>
smVars == <<sm_state, sm_file, sm_pc, sm_flushed, sm_call>>
diffVars == <<diff_new, diff_old, diff_out>>
cliVars == <<cli>>
utilVars == <<util_call, util_value>>
dbVars == <<db_anime, db_episodes, db_result>>
unitVars == <<limVars, reqVars, smVars, diffVars, cliVars, utilVars, dbVars>>
vars == <<orchVars, unitVars>>

\* The components at rest, where a specification does not run them.
LimiterIdle ==
    /\ clock = 0
    /\ limiter = [rate |-> 0, min_interval |-> 0, last_request_time |-> {}]
    /\ callers = <<>>
    /\ returns = <<>>

NoRequest == [pc |-> "off", MAX_RETRIES |-> 0, BACKOFF_BASE_SECONDS |-> 0, BACKOFF_MAX_SECONDS |-> 0, n |-> 0, acquires |-> 0, attempt_number |-> 0, outcomes |-> <<>>, waits |-> <<>>, wake |-> 0]

RequestIdle == request = NoRequest

NoCall == [fresh |-> FALSE, n |-> 0, source_id |-> "", title |-> "", episodes_count |-> 0, timestamp |-> "", anime_payload |-> NoneDict, episodes |-> NoneDict, videos |-> NoneDict]

StateManagerIdle ==
    /\ sm_state = FreshState
    /\ sm_file = NoFile
    /\ sm_pc = "off"
    /\ sm_flushed = {}
    /\ sm_call = NoCall

DiffIdle == diff_new = EmptyDict /\ diff_old = NoneDict /\ diff_out = {}

NoCli == [pc |-> "off", command |-> "", mode |-> "", source_id |-> "", max_pages |-> {}, outcome |-> "", exit |-> {}]

NoUtilCall == [fn |-> "", args |-> <<>>]

\* Nothing else is running: no CLI invocation, no call of a function on its own.
DbIdle == db_anime = FALSE /\ db_episodes = EmptyDict /\ db_result = {}

Quiet == cli = NoCli /\ util_call = NoUtilCall /\ util_value = {} /\ DbIdle

MaxSaveErrors == 0

RECURSIVE MaxOf(_)
MaxOf(S) == IF S = {} THEN 0
            ELSE LET x == CHOOSE y \in S : TRUE
                     m == MaxOf(S \ {x})
                 IN IF x > m THEN x ELSE m

TaskSlots == 1 .. MaxOf(UNION {{Len(c.pages[p]) : p \in DOMAIN c.pages} : c \in Catalogs})

\* config.py declares no MAX_CONSECUTIVE_ERRORS field, so the attribute of
\* settings is a set: empty where the attribute does not exist (reading it
\* raises AttributeError), {n} where a deployment provides the value n.
Undefined == {}

NoTask ==
    [pc |-> "idle", id |-> 0, prev |-> FALSE, anime_payload |-> NoneDict,
     episodes_for_import |-> <<>>, episodes_state |-> EmptyDict,
     vref |-> "none", vowner |-> 0, vfresh |-> EmptyDict,
     latest_video_payloads |-> EmptyDict, vi |-> 0, video_import_errors |-> 0,
     result |-> "none", stages |-> <<>>, gate |-> {},
     ret |-> [stage |-> "none", ok |-> TRUE], entry0 |-> NoneDict,
     raised |-> FALSE]

NoRun == [ran |-> FALSE, clean |-> FALSE, full |-> FALSE, ver |-> "none"]

Now == Str(run)

Constructed ==
    /\ settings \in [MAX_CONSECUTIVE_ERRORS : {Undefined, {MaxThreshold}},
                     CONCURRENCY : 1 .. MaxConcurrency]
    /\ catalog \in Catalogs
    /\ ver = "v1"
    /\ stateFile = NoFile
    /\ run = 0
    /\ rpc = "idle"
    /\ max_pages = {}
    /\ page = 1
    /\ consecutive_errors = 0
    /\ response = NoneDict
    /\ stop = "none"
    /\ state = FreshState
    /\ semaphore = settings.CONCURRENCY
    /\ tasks = [t \in TaskSlots |-> NoTask]
    /\ orphans = EmptyDict
    /\ saveErrors = 0
    /\ calls = {}
    /\ pageHist = <<>>
    /\ savedPage = 0
    /\ unsettled = 0
    /\ backend = {}
    /\ rejected = {}
    /\ forgotten = {}
    /\ clean = TRUE
    /\ prevRun = NoRun
    /\ loaded = FreshState

Init == Constructed /\ LimiterIdle /\ RequestIdle /\ StateManagerIdle /\ DiffIdle /\ Quiet

\* The orchestrator constructed and never run, where a component is run on
\* its own.
OrchestratorIdle ==
    /\ Constructed
    /\ settings.MAX_CONSECUTIVE_ERRORS = Undefined
    /\ settings.CONCURRENCY = 1
    /\ catalog = CHOOSE c \in Catalogs : TRUE

\* ---------------------------------------------------- process_anime, stepwise
\* A coroutine runs from one await to the next in one step.  A step yields
\* [task, state, orphans, detach, issued, skipped]: the coroutine's record,
\* the state dict and the unstored videos dicts after the step, the coroutines
\* whose videos_state stops being the stored dict, the import calls issued,
\* the entity and episode records found up to date.
SourceId(tk) == generate_source_id(tk.id)

Active(tk) == tk.pc \notin {"idle", "done"}

EntryGet(entry, key, default) == IF key \in DOMAIN entry THEN entry[key] ELSE default

EpisodesData(tk) == parse_episodes(KodikResults(tk.id, ver))

Work(tk) == VideoWork(SourceId(tk), EpisodesData(tk), 1)

Call(kind, t, key, items) ==
    [kind |-> kind, page |-> page, task |-> t, key |-> key, items |-> items]

Decision(kind, key, previous, candidate) ==
    [kind |-> kind, key |-> key, previous |-> previous, candidate |-> candidate]

\* The dict videos_state of a coroutine refers to: the dict stored in the
\* entry, a dict that was stored when the coroutine took it and has since been
\* replaced by mark_anime_processed, or the coroutine's own default {}.
VideosState(tk, st, orph) ==
    CASE tk.vref = "stored" -> st.processed_anime[SourceId(tk)]["videos"]
      [] tk.vref = "orphan" -> orph[tk.vowner]
      [] OTHER -> tk.vfresh

\* Lines 217-218: videos_state[key] = player_data; latest_video_payloads[key] = player_data
WriteVideo(tk, st, orph, key, player_data) ==
    LET tk1 == [tk EXCEPT !.latest_video_payloads = Put(@, key, player_data)]
    IN CASE tk.vref = "stored" ->
              [task |-> tk1, orphans |-> orph,
               state |-> [st EXCEPT !.processed_anime[SourceId(tk)]["videos"] =
                                        Put(@, key, player_data)]]
         [] tk.vref = "orphan" ->
              [task |-> tk1, state |-> st,
               orphans |-> [orph EXCEPT ![tk.vowner] = Put(@, key, player_data)]]
         [] OTHER ->
              [task |-> [tk1 EXCEPT !.vfresh = Put(@, key, player_data)],
               state |-> st, orphans |-> orph]

Settle(tk, result) == [tk EXCEPT !.pc = "done", !.result = result]

\* Variant of Fail: the failed pipeline reports success.
FailReturnsTrue(tk) ==
    [task |-> Settle(tk, "True"), state |-> state, orphans |-> orphans,
     detach |-> {}, issued |-> {}, skipped |-> {}]

\* return False
Fail(tk) ==
    [task |-> Settle(tk, "False"), state |-> state, orphans |-> orphans,
     detach |-> {}, issued |-> {}, skipped |-> {}]

\* Lines 225-241: mark_anime_processed and return True.  The entry's videos
\* dict is replaced by latest_video_payloads; a coroutine of the same entity
\* that holds the replaced dict keeps it.
MarkProcessed(t, tk, st, orph) ==
    LET source_id == SourceId(tk)
        sharers == {u \in TaskSlots \ {t} :
                       /\ Active(tasks[u])
                       /\ tasks[u].id = tk.id
                       /\ tasks[u].vref = "stored"}
    IN [task |-> Settle([tk EXCEPT !.stages = Append(@, "mark_processed")], "True"),
        state |-> mark_anime_processed(st, source_id, tk.anime_payload.title,
                                       Len(EpisodesData(tk)), tk.anime_payload,
                                       tk.episodes_state, tk.latest_video_payloads, Now),
        orphans |-> IF sharers = {} THEN orph
                    ELSE Put(orph, t, st.processed_anime[source_id]["videos"]),
        detach |-> sharers,
        issued |-> {},
        skipped |-> {}]

\* Lines 201-208: the first index from i on whose player is not skipped.
RECURSIVE NextVideo(_, _, _)
NextVideo(work, i, videos_state) ==
    IF i > Len(work) THEN i
    ELSE LET key == _video_key(work[i].episode_source_id, work[i].player_data)
             previous_video_payload == GetDict(videos_state, key)
             video_diff == compute_diff(work[i].player_data, previous_video_payload)
         IN IF VideoSkip(previous_video_payload, video_diff)
            THEN NextVideo(work, i + 1, videos_state)
            ELSE i

\* Lines 189-241 from position i of the second loop to the next await.
VideoStage(t, tk, st, orph, i) ==
    LET work == Work(tk)
        videos_state == VideosState(tk, st, orph)
        j == NextVideo(work, i, videos_state)
        key(k) == _video_key(work[k].episode_source_id, work[k].player_data)
        decided == {Decision("video", key(k), GetDict(videos_state, key(k)),
                             work[k].player_data) :
                        k \in {x \in i .. j : x <= Len(work)}}
        tk1 == [tk EXCEPT !.gate = @ \cup decided, !.vi = j]
    IN IF j <= Len(work)
       THEN [task |-> [tk1 EXCEPT !.pc = "import_video",
                                  !.stages = Append(@, "import_video")],
             state |-> st, orphans |-> orph, detach |-> {},
             issued |-> {Call("video", t, key(j), {key(j)})}, skipped |-> {}]
       ELSE MarkProcessed(t, tk1, st, orph)

\* Orphaned dicts are kept while a running coroutine holds them.
Collect(orph, tks) ==
    [o \in {x \in DOMAIN orph : \E u \in TaskSlots :
                /\ Active(tks[u]) /\ tks[u].vref = "orphan" /\ tks[u].vowner = x}
        |-> orph[o]]

\* The records of an import call: [kind, key, payload].
Record(kind, key, payload) == [kind |-> kind, key |-> key, payload |-> payload]

AnimeRecords(tk) == {Record("anime", SourceId(tk), tk.anime_payload)}

EpisodeRecords(tk) ==
    {Record("episode", tk.episodes_for_import[i].source_episode_id,
            tk.episodes_for_import[i]) : i \in DOMAIN tk.episodes_for_import}

\* The backend after a successful import of the records sent: upsert by key.
Stored(held, sent) ==
    {b \in held : \A x \in sent : x.kind # b.kind \/ x.key # b.key} \cup sent

\* Variant of Apply: a coroutine that returns keeps its permit.
ApplyKeepsPermit(t, stage, ok, sent, r) ==
    /\ tasks' = [u \in TaskSlots |->
                    IF u = t THEN [r.task EXCEPT !.ret = [stage |-> stage, ok |-> ok]]
                    ELSE IF u \in r.detach
                    THEN [tasks[u] EXCEPT !.vref = "orphan", !.vowner = t]
                    ELSE tasks[u]]
    /\ state' = r.state
    /\ orphans' = Collect(r.orphans, tasks')
    /\ semaphore' = semaphore
    /\ calls' = calls \cup r.issued
    /\ clean' = (clean /\ ok /\ r.task.result # "False")
    /\ backend' = IF ok THEN Stored(backend, sent) ELSE backend
    /\ rejected' = IF ok THEN rejected \ sent ELSE rejected \cup (sent \ backend)
    /\ forgotten' = forgotten \cup (r.skipped \cap rejected)
    /\ UNCHANGED unitVars
    /\ UNCHANGED <<envVars, loopVars, stateFile, run, saveErrors, pageHist,
                   savedPage, unsettled, prevRun, loaded>>

\* The step of coroutine t: stage is the call that returned (none for the
\* acquisition of the semaphore), ok its outcome, sent the records of the
\* import call that returned, r the effect of the step.
Apply(t, stage, ok, sent, r) ==
    /\ tasks' = [u \in TaskSlots |->
                    IF u = t THEN [r.task EXCEPT !.ret = [stage |-> stage, ok |-> ok]]
                    ELSE IF u \in r.detach
                    THEN [tasks[u] EXCEPT !.vref = "orphan", !.vowner = t]
                    ELSE tasks[u]]
    /\ state' = r.state
    /\ orphans' = Collect(r.orphans, tasks')
    /\ semaphore' = IF r.task.pc = "done" THEN semaphore + 1 ELSE semaphore
    /\ calls' = calls \cup r.issued
    /\ clean' = (clean /\ ok /\ r.task.result # "False")
    /\ backend' = IF ok THEN Stored(backend, sent) ELSE backend
    /\ rejected' = IF ok THEN rejected \ sent ELSE rejected \cup (sent \ backend)
    /\ forgotten' = forgotten \cup (r.skipped \cap rejected)
    /\ UNCHANGED unitVars
    /\ UNCHANGED <<envVars, loopVars, stateFile, run, saveErrors, pageHist,
                   savedPage, unsettled, prevRun, loaded>>

\* Variant of SemaphoreFree: the semaphore never blocks.
SemaphoreFreeAlways == TRUE

\* asyncio.Semaphore: a permit is free.
SemaphoreFree == semaphore > 0

\* Lines 69-76: async with self.semaphore; get_anime_entry; get_anime is sent.
Acquire(t) ==
    /\ tasks[t].pc = "wait_sem"
    /\ SemaphoreFree
    /\ semaphore' = semaphore - 1
    /\ tasks' = [tasks EXCEPT ![t] =
            [tasks[t] EXCEPT
                !.pc = "get_anime",
                !.prev = SourceId(tasks[t]) \in DOMAIN state.processed_anime,
                !.entry0 = GetDict(state.processed_anime, SourceId(tasks[t])),
                !.stages = <<"get_anime">>]]
    /\ UNCHANGED unitVars
    /\ UNCHANGED <<envVars, loopVars, stateFile, run, state, orphans, saveErrors,
                   calls, pageHist, savedPage, unsettled, clean, backend,
                   rejected, forgotten, prevRun, loaded>>

\* Lines 76-111: get_anime returns; the entity is imported or found up to date.
GetAnimeReturn(t, found) ==
    /\ tasks[t].pc = "get_anime"
    /\ LET tk == tasks[t]
           source_id == SourceId(tk)
           anime_data == parse_anime_data(ShikimoriData(tk.id, ver))
           anime_payload == AnimePayload(anime_data)
           previous_anime_payload ==
               IF tk.prev
               THEN EntryGet(state.processed_anime[source_id], "anime_payload", NoneDict)
               ELSE NoneDict
           anime_diff == compute_diff(anime_payload, previous_anime_payload)
           tk1 == [tk EXCEPT !.anime_payload = anime_payload,
                             !.gate = @ \cup {Decision("anime", source_id,
                                                       previous_anime_payload,
                                                       anime_payload)}]
       IN IF ~found THEN Apply(t, "get_anime", FALSE, {}, Fail(tk))
          ELSE IF AnimeGate(previous_anime_payload, anime_diff)
          THEN Apply(t, "get_anime", TRUE, {},
                     [task |-> [tk1 EXCEPT !.pc = "import_anime",
                                           !.stages = Append(@, "import_anime")],
                      state |-> state, orphans |-> orphans, detach |-> {},
                      issued |-> {Call("anime", t, source_id, {source_id})},
                      skipped |-> {}])
          ELSE Apply(t, "get_anime", TRUE, {},
                     [task |-> [tk1 EXCEPT !.pc = "get_episodes",
                                           !.stages = Append(@, "get_episodes")],
                      state |-> state, orphans |-> orphans, detach |-> {},
                      issued |-> {}, skipped |-> AnimeRecords(tk1)])

\* Variant of ExceptClause: the handler reports success.
ExceptReturnsTrue(tk) ==
    [task |-> Settle([tk EXCEPT !.raised = TRUE], "True"), state |-> state,
     orphans |-> orphans, detach |-> {}, issued |-> {}, skipped |-> {}]

\* Lines 243-245: except Exception: the error is logged, return False.
ExceptClause(tk) == Fail([tk EXCEPT !.raised = TRUE])

\* Lines 76-84, 243-245: get_anime returns a JSON body that is no object (a
\* non-empty array); parse_anime_data raises AttributeError inside the try.
GetAnimeRaises(t) ==
    /\ tasks[t].pc = "get_anime"
    /\ Apply(t, "get_anime", FALSE, {}, ExceptClause(tasks[t]))

\* Lines 101-111: import_anime returns.
ImportAnimeReturn(t, success) ==
    /\ tasks[t].pc = "import_anime"
    /\ LET tk == tasks[t]
       IN IF ~success
          THEN Apply(t, "import_anime", FALSE, AnimeRecords(tk), Fail(tk))
          ELSE Apply(t, "import_anime", TRUE, AnimeRecords(tk),
                     [task |-> [tk EXCEPT !.pc = "get_episodes",
                                          !.stages = Append(@, "get_episodes")],
                      state |-> state, orphans |-> orphans, detach |-> {},
                      issued |-> {}, skipped |-> {}])

\* Lines 134-184 and on: the first loop, then import_episodes or the second loop.
EpisodeStage(t, tk) ==
    LET source_id == SourceId(tk)
        previous_entry == IF tk.prev THEN state.processed_anime[source_id] ELSE EmptyDict
        stored_episodes == tk.prev /\ "episodes" \in DOMAIN previous_entry
        stored_videos == tk.prev /\ "videos" \in DOMAIN previous_entry
        episodes_state == EntryGet(previous_entry, "episodes", EmptyDict)
        episodes_data == EpisodesData(tk)
        loop == EpisodeLoop(source_id, episodes_data, 1,
                            [episodes_for_import |-> <<>>, episodes_state |-> episodes_state])
        eid(i) == generate_episode_source_id(source_id, episodes_data[i].number)
        decided == {Decision("episode", eid(i), GetDict(episodes_state, eid(i)),
                             _build_episode_payload(eid(i), episodes_data[i],
                                 EpisodeVideos(source_id, episodes_data[i]) # <<>>)) :
                        i \in DOMAIN episodes_data}
        unsent == {Record("episode", d.key, d.candidate) :
                      d \in {x \in decided :
                                \A i \in DOMAIN loop.episodes_for_import :
                                    loop.episodes_for_import[i].source_episode_id # x.key}}
        tk1 == [tk EXCEPT !.episodes_for_import = loop.episodes_for_import,
                          !.episodes_state = loop.episodes_state,
                          !.vref = IF stored_videos THEN "stored" ELSE "fresh",
                          !.gate = @ \cup decided]
        st1 == IF stored_episodes
               THEN [state EXCEPT !.processed_anime[source_id]["episodes"] =
                                      loop.episodes_state]
               ELSE state
    IN IF loop.episodes_for_import # <<>>
       THEN [task |-> [tk1 EXCEPT !.pc = "import_episodes",
                                  !.stages = Append(@, "import_episodes")],
             state |-> st1, orphans |-> orphans, detach |-> {},
             issued |-> {Call("episodes", t, source_id,
                              {loop.episodes_for_import[i].source_episode_id :
                                   i \in DOMAIN loop.episodes_for_import})},
             skipped |-> unsent]
       ELSE [VideoStage(t, tk1, st1, orphans, 1) EXCEPT !.skipped = unsent]

\* Lines 113-119: kodik_results is None, or is empty.
EpisodesMissing(outcome) == outcome = "None" \/ outcome = "empty"

\* Lines 111-184: get_anime_episodes returns None, [] or the results.
GetEpisodesReturn(t, outcome) ==
    /\ tasks[t].pc = "get_episodes"
    /\ LET tk == tasks[t]
       IN IF EpisodesMissing(outcome)
          THEN Apply(t, "get_episodes", FALSE, {}, Fail(tk))
          ELSE IF EpisodesData(tk) = <<>>
          THEN Apply(t, "get_episodes", FALSE, {}, Fail(tk))
          ELSE Apply(t, "get_episodes", TRUE, {}, EpisodeStage(t, tk))

\* Lines 175-200: import_episodes returns.
ImportEpisodesReturn(t, success) ==
    /\ tasks[t].pc = "import_episodes"
    /\ LET tk == tasks[t]
       IN IF ~success
          THEN Apply(t, "import_episodes", FALSE, EpisodeRecords(tk), Fail(tk))
          ELSE Apply(t, "import_episodes", TRUE, EpisodeRecords(tk),
                     VideoStage(t, tk, state, orphans, 1))

\* Variant of ImportVideoReturn: a failed import_video ends the pipeline.
ImportVideoReturnAborts(t, success) ==
    /\ tasks[t].pc = "import_video"
    /\ LET tk == tasks[t]
           work == Work(tk)
           key == _video_key(work[tk.vi].episode_source_id, work[tk.vi].player_data)
           w == WriteVideo(tk, state, orphans, key, work[tk.vi].player_data)
       IN IF ~success
          THEN Apply(t, "import_video", FALSE, {},
                     Fail([tk EXCEPT !.video_import_errors = @ + 1]))
          ELSE Apply(t, "import_video", TRUE, {},
                     VideoStage(t, w.task, w.state, w.orphans, tk.vi + 1))

\* Lines 210-241: import_video returns.
ImportVideoReturn(t, success) ==
    /\ tasks[t].pc = "import_video"
    /\ LET tk == tasks[t]
           work == Work(tk)
           key == _video_key(work[tk.vi].episode_source_id, work[tk.vi].player_data)
           w == WriteVideo(tk, state, orphans, key, work[tk.vi].player_data)
       IN IF ~success
          THEN Apply(t, "import_video", FALSE, {},
                     VideoStage(t, [tk EXCEPT !.video_import_errors = @ + 1],
                                state, orphans, tk.vi + 1))
          ELSE Apply(t, "import_video", TRUE, {},
                     VideoStage(t, w.task, w.state, w.orphans, tk.vi + 1))

\* ------------------------------------------------------------ StateManager.save_state
\* outcome: ok, or the call that raised (mkdir, open, json.dump); the
\* exception is caught and save_state returns False.  open(path, "w")
\* truncates the file, so a failing json.dump leaves an unparseable file.
save_state(st, file, outcome, now) ==
    CASE outcome = "ok" ->
            [state |-> [st EXCEPT !.last_run = now],
             file |-> json_dump([st EXCEPT !.last_run = now])]
      [] outcome = "mkdir_error" -> [state |-> st, file |-> file]
      [] outcome = "open_error" -> [state |-> [st EXCEPT !.last_run = now], file |-> file]
      [] OTHER -> [state |-> [st EXCEPT !.last_run = now], file |-> CorruptFile]

SaveOutcomes == {"ok", "mkdir_error", "open_error", "dump_error"}

\* ------------------------------------------------------------ run, stepwise
Truthy(arg) == arg # {} /\ arg # {0}

\* max_pages: None (no --max-pages), or any integer from 0 up.
MaxPagesArgs == {{}} \cup {{k} : k \in 0 .. MaxPagesArg}

\* Variant of StartRun: the run resumes after the persisted last page.
StartRunResumes(mp, v) ==
    /\ rpc = "idle"
    /\ run < MaxRuns
    /\ run = 0 => v = "v1"
    /\ run' = run + 1
    /\ ver' = v
    /\ max_pages' = mp
    /\ state' = _load_state(stateFile)
    /\ loaded' = _load_state(stateFile)
    /\ semaphore' = settings.CONCURRENCY
    /\ page' = _load_state(stateFile).last_page + 1
    /\ consecutive_errors' = 0
    /\ response' = NoneDict
    /\ stop' = "none"
    /\ rpc' = "loop"
    /\ tasks' = [t \in TaskSlots |-> NoTask]
    /\ orphans' = EmptyDict
    /\ calls' = {}
    /\ pageHist' = <<>>
    /\ savedPage' = 0
    /\ clean' = TRUE
    /\ unsettled' = 0
    /\ UNCHANGED unitVars
    /\ UNCHANGED <<settings, catalog, stateFile, saveErrors, backend, rejected, forgotten,
                   prevRun>>

\* ParserOrchestrator() and the first lines of run(max_pages): the state is
\* loaded, the semaphore created, the loop variables initialised.
StartRun(mp, v) ==
    /\ rpc = "idle"
    /\ run < MaxRuns
    /\ run = 0 => v = "v1"
    /\ run' = run + 1
    /\ ver' = v
    /\ max_pages' = mp
    /\ state' = _load_state(stateFile)
    /\ loaded' = _load_state(stateFile)
    /\ semaphore' = settings.CONCURRENCY
    /\ page' = 1
    /\ consecutive_errors' = 0
    /\ response' = NoneDict
    /\ stop' = "none"
    /\ rpc' = "loop"
    /\ tasks' = [t \in TaskSlots |-> NoTask]
    /\ orphans' = EmptyDict
    /\ calls' = {}
    /\ pageHist' = <<>>
    /\ savedPage' = 0
    /\ clean' = TRUE
    /\ unsettled' = 0
    /\ UNCHANGED unitVars
    /\ UNCHANGED <<settings, catalog, stateFile, saveErrors, backend, rejected, forgotten,
                   prevRun>>

Break(reason) ==
    /\ rpc' = "closing"
    /\ stop' = reason

\* Variant of BreakerTripped: the breaker trips one page late.
BreakerTrippedLate == \E n \in settings.MAX_CONSECUTIVE_ERRORS : consecutive_errors > n

\* Line 272: the circuit breaker.
BreakerTripped == \E n \in settings.MAX_CONSECUTIVE_ERRORS : consecutive_errors >= n

\* Lines 266-284: the top of the loop, up to the list_anime request.
LoopTop ==
    /\ rpc = "loop"
    /\ IF Truthy(max_pages) /\ (\E k \in max_pages : page > k)
       THEN Break("max_pages")
       ELSE IF settings.MAX_CONSECUTIVE_ERRORS = Undefined
       THEN Break("error")
       ELSE IF BreakerTripped
       THEN Break("breaker")
       ELSE rpc' = "list_anime" /\ stop' = stop
    /\ UNCHANGED unitVars
    /\ UNCHANGED <<envVars, stateFile, run, max_pages, page, consecutive_errors,
                   response, state, semaphore, tasks, orphans, saveErrors, calls,
                   pageHist, savedPage, unsettled, clean, backend, rejected, forgotten,
                   prevRun, loaded>>

\* Lines 295-301: the shikimori ids of the items that carry one, in order.
RECURSIVE TaskIds(_)
TaskIds(results) ==
    IF results = <<>> THEN <<>>
    ELSE IF extract_shikimori_id(Head(results)) = 0 THEN TaskIds(Tail(results))
    ELSE <<extract_shikimori_id(Head(results))>> \o TaskIds(Tail(results))

\* Variant of ListAnimeReturn: a failed fetch counts as a failed page.
ListAnimeReturnCounts(resp) ==
    /\ rpc = "list_anime"
    /\ response' = resp
    /\ IF resp = NoneDict
       THEN Break("list_failed") /\ tasks' = tasks
            /\ consecutive_errors' = consecutive_errors + 1
       ELSE IF resp.results = <<>>
       THEN Break("no_results") /\ tasks' = tasks
            /\ consecutive_errors' = consecutive_errors
       ELSE /\ rpc' = "gather"
            /\ stop' = stop
            /\ consecutive_errors' = consecutive_errors
            /\ tasks' = [t \in TaskSlots |->
                            IF t <= Len(TaskIds(resp.results))
                            THEN [NoTask EXCEPT !.pc = "wait_sem",
                                                !.id = TaskIds(resp.results)[t]]
                            ELSE NoTask]
    /\ UNCHANGED unitVars
    /\ UNCHANGED <<envVars, stateFile, run, max_pages, page,
                   state, semaphore, orphans, saveErrors, calls, pageHist,
                   savedPage, unsettled, clean, backend, rejected, forgotten, prevRun,
                   loaded>>

\* Lines 280-305: list_anime returns None or a response; the coroutines of
\* the page are created and gathered.
ListAnimeReturn(resp) ==
    /\ rpc = "list_anime"
    /\ response' = resp
    /\ IF resp = NoneDict
       THEN Break("list_failed") /\ tasks' = tasks
       ELSE IF resp.results = <<>>
       THEN Break("no_results") /\ tasks' = tasks
       ELSE /\ rpc' = "gather"
            /\ stop' = stop
            /\ tasks' = [t \in TaskSlots |->
                            IF t <= Len(TaskIds(resp.results))
                            THEN [NoTask EXCEPT !.pc = "wait_sem",
                                                !.id = TaskIds(resp.results)[t]]
                            ELSE NoTask]
    /\ UNCHANGED unitVars
    /\ UNCHANGED <<envVars, stateFile, run, max_pages, page, consecutive_errors,
                   state, semaphore, orphans, saveErrors, calls, pageHist,
                   savedPage, unsettled, clean, backend, rejected, forgotten, prevRun,
                   loaded>>

\* Variant of GatherDone: gather returns without waiting.
GatherDoneEarly == TRUE

\* Line 305: asyncio.gather returns once every coroutine has returned.
GatherDone == \A t \in TaskSlots : ~Active(tasks[t])

\* Variant of CountPage: a page with a success does not reset the counter.
CountPageNoReset(page_success, errors) == IF page_success > 0 THEN errors ELSE errors + 1

\* Lines 323-328: the consecutive-error counter after a page.
CountPage(page_success, errors) == IF page_success > 0 THEN 0 ELSE errors + 1

\* Lines 308-320: a result is counted as a success where it is truthy and no
\* exception, as a failure otherwise.
PageSuccess == Cardinality({t \in TaskSlots : tasks[t].result = "True"})

PageFailed == Cardinality({t \in TaskSlots : tasks[t].result \in {"False", "Exception"}})

\* Variant of PageEnd: a page without any pipeline leaves the counter alone.
PageEndSkipsEmpty(outcome) ==
    /\ rpc = "gather"
    /\ GatherDone
    /\ outcome # "ok" => saveErrors < MaxSaveErrors
    /\ LET page_success == PageSuccess
           page_failed == PageFailed
           saved == save_state(set_last_page(state, page), stateFile, outcome, Now)
       IN /\ consecutive_errors' = IF Len(TaskIds(response.results)) = 0 THEN consecutive_errors
                                  ELSE CountPage(page_success, consecutive_errors)
          /\ state' = saved.state
          /\ stateFile' = saved.file
          /\ pageHist' = Append(pageHist,
                 [success |-> page_success,
                  failed |-> page_failed,
                  dispatched |-> Len(TaskIds(response.results)),
                  raised |-> Cardinality({t \in TaskSlots : tasks[t].raised})])
    /\ unsettled' = Cardinality({t \in TaskSlots : Active(tasks[t])})
    /\ savedPage' = page
    /\ saveErrors' = IF outcome = "ok" THEN saveErrors ELSE saveErrors + 1
    /\ IF page * PAGE_LIMIT >= response.total
       THEN Break("last_page") /\ page' = page
       ELSE rpc' = "loop" /\ stop' = stop /\ page' = page + 1
    /\ tasks' = [t \in TaskSlots |-> NoTask]
    /\ orphans' = EmptyDict
    /\ UNCHANGED unitVars
    /\ UNCHANGED <<envVars, run, max_pages, response, semaphore, calls, clean,
                   backend, rejected, forgotten, prevRun, loaded>>

\* Lines 305-344: gather returns; the results are counted, the counter
\* updated, the page recorded and the state saved; then the total is checked.
PageEnd(outcome) ==
    /\ rpc = "gather"
    /\ GatherDone
    /\ outcome # "ok" => saveErrors < MaxSaveErrors
    /\ LET page_success == PageSuccess
           page_failed == PageFailed
           saved == save_state(set_last_page(state, page), stateFile, outcome, Now)
       IN /\ consecutive_errors' = CountPage(page_success, consecutive_errors)
          /\ state' = saved.state
          /\ stateFile' = saved.file
          /\ pageHist' = Append(pageHist,
                 [success |-> page_success,
                  failed |-> page_failed,
                  dispatched |-> Len(TaskIds(response.results)),
                  raised |-> Cardinality({t \in TaskSlots : tasks[t].raised})])
    /\ unsettled' = Cardinality({t \in TaskSlots : Active(tasks[t])})
    /\ savedPage' = page
    /\ saveErrors' = IF outcome = "ok" THEN saveErrors ELSE saveErrors + 1
    /\ IF page * PAGE_LIMIT >= response.total
       THEN Break("last_page") /\ page' = page
       ELSE rpc' = "loop" /\ stop' = stop /\ page' = page + 1
    /\ tasks' = [t \in TaskSlots |-> NoTask]
    /\ orphans' = EmptyDict
    /\ UNCHANGED unitVars
    /\ UNCHANGED <<envVars, run, max_pages, response, semaphore, calls, clean,
                   backend, rejected, forgotten, prevRun, loaded>>

\* Lines 346-355: the run is over and the clients are closed.
Close ==
    /\ rpc = "closing"
    /\ rpc' = "idle"
    /\ prevRun' = [ran |-> TRUE,
                   clean |-> clean /\ stateFile = json_dump(state),
                   full |-> stop \in {"last_page", "no_results"},
                   ver |-> ver]
    /\ UNCHANGED unitVars
    /\ UNCHANGED <<envVars, stateFile, run, max_pages, page, consecutive_errors,
                   response, stop, state, semaphore, tasks, orphans, saveErrors,
                   calls, pageHist, savedPage, unsettled, clean, backend,
                   rejected, forgotten, loaded>>

Next ==
    \/ \E mp \in MaxPagesArgs, v \in Versions : StartRun(mp, v)
    \/ LoopTop
    \/ \E resp \in {NoneDict, CatalogPage(catalog, page)} : ListAnimeReturn(resp)
    \/ \E t \in TaskSlots : Acquire(t)
    \/ \E t \in TaskSlots, found \in BOOLEAN : GetAnimeReturn(t, found)
    \/ \E t \in TaskSlots : GetAnimeRaises(t)
    \/ \E t \in TaskSlots, success \in BOOLEAN : ImportAnimeReturn(t, success)
    \/ \E t \in TaskSlots, outcome \in {"None", "empty", "results"} :
           GetEpisodesReturn(t, outcome)
    \/ \E t \in TaskSlots, success \in BOOLEAN : ImportEpisodesReturn(t, success)
    \/ \E t \in TaskSlots, success \in BOOLEAN : ImportVideoReturn(t, success)
    \/ \E outcome \in SaveOutcomes : PageEnd(outcome)
    \/ Close

Spec == Init /\ [][Next]_vars

-----------------------------------------------------------------------------
(* Properties of the crawl.                                                *)

\* The run in progress follows a run over the same sources in which every
\* pipeline and every import call succeeded, every page was crawled and the
\* state was flushed.
AfterCleanRun ==
    /\ rpc # "idle"
    /\ prevRun.ran /\ prevRun.clean /\ prevRun.full
    /\ prevRun.ver = ver

Remembered(st) ==
    [sid \in DOMAIN st.processed_anime |->
        [anime_payload |-> GetDict(st.processed_anime[sid], "anime_payload"),
         episodes |-> GetDict(st.processed_anime[sid], "episodes"),
         videos |-> GetDict(st.processed_anime[sid], "videos"),
         episodes_count |-> Get(st.processed_anime[sid], "episodes_count")]]

Alone(t) == \A u \in TaskSlots : (u # t /\ tasks[u].pc # "idle") => tasks[u].id # tasks[t].id

\* Coroutine t has returned False after the call of a stage failed.
FailedAt(t, stage_set) ==
    /\ tasks[t].pc = "done" /\ tasks[t].result = "False"
    /\ ~tasks[t].ret.ok /\ tasks[t].ret.stage \in stage_set

FailStages == {"get_anime", "import_anime", "get_episodes", "import_episodes"}

CallKind(kind) == IF kind = "episode" THEN "episodes" ELSE kind

\* The record decided on by d went out in an import call of coroutine t.
Sent(t, d) ==
    \E c \in calls :
        /\ c.task = t /\ c.page = page
        /\ c.kind = CallKind(d.kind)
        /\ d.key \in c.items

\* There is no previous payload, or compute_diff reports a difference.
Changed(d) ==
    d.previous = NoneDict \/ DOMAIN compute_diff(d.candidate, d.previous) # {}

\* C5: an entity, episode or media link is submitted for import if and only
\* if it has no previous payload or compute_diff of the candidate against the
\* previous payload is non-empty; an episode batch is never empty, so no
\* batch call is made when no episode is new or changed.
C5_DiffGating ==
    /\ \A t \in TaskSlots : \A d \in tasks[t].gate : Sent(t, d) <=> Changed(d)
    /\ \A c \in calls :
          /\ c.items # {}
          /\ (c.page = page /\ tasks[c.task].pc # "idle") =>
                \A k \in c.items :
                    \E d \in tasks[c.task].gate :
                        CallKind(d.kind) = c.kind /\ d.key = k /\ Changed(d)

\* A pipeline of a stored entity sends one changed episode and holds back an
\* unchanged one.
C5_Witness ==
    \E t \in TaskSlots : \E d1, d2 \in tasks[t].gate :
        /\ d1.kind = "episode" /\ d2.kind = "episode"
        /\ d1.previous # NoneDict /\ d2.previous # NoneDict
        /\ Sent(t, d1) /\ ~Sent(t, d2)

StageRank(stage) ==
    CASE stage = "get_anime" -> 1
      [] stage = "import_anime" -> 2
      [] stage = "get_episodes" -> 3
      [] stage = "import_episodes" -> 4
      [] stage = "import_video" -> 5
      [] stage = "mark_processed" -> 6

\* C6: the calls of a pipeline are made in the order fetch-metadata,
\* import-entity, fetch-episodes, import-episode-batch, import-media-link(s),
\* mark-processed; when one of the first four fails no later stage runs, the
\* pipeline returns false and the entity is not marked processed.
C6_StageOrder ==
    \A t \in TaskSlots :
        LET s == tasks[t].stages
        IN /\ \A i \in 1 .. Len(s) - 1 :
                  \/ StageRank(s[i]) < StageRank(s[i + 1])
                  \/ (s[i] = "import_video" /\ s[i + 1] = "import_video")
           /\ (~tasks[t].ret.ok /\ tasks[t].ret.stage \in FailStages) =>
                  /\ tasks[t].pc = "done"
                  /\ tasks[t].result = "False"
                  /\ s[Len(s)] = tasks[t].ret.stage
           /\ tasks[t].result = "True" => s[Len(s)] = "mark_processed"

\* One pipeline of a page went through all six stages while another stopped
\* at the failed episode-batch import.
C6_Witness ==
    \E t, u \in TaskSlots :
        /\ tasks[t].stages = <<"get_anime", "import_anime", "get_episodes",
                               "import_episodes", "import_video", "mark_processed">>
        /\ FailedAt(u, {"import_episodes"})
        /\ "import_video" \notin {tasks[u].stages[i] : i \in DOMAIN tasks[u].stages}

\* The last n pages of the run each ended without a successful entity.
ZeroTail(n) ==
    /\ Len(pageHist) >= n
    /\ \A i \in DOMAIN pageHist : i > Len(pageHist) - n => pageHist[i].success = 0

\* C7: once the last N pages each ended with zero successful entities, N the
\* configured threshold, no further catalog page is fetched and no further
\* entity is dispatched.
C7_BreakerStops ==
    \A n \in settings.MAX_CONSECUTIVE_ERRORS :
        (n >= 1 /\ ZeroTail(n)) => rpc \notin {"list_anime", "gather"}

\* The breaker has stopped the run before the source's total was reached.
C7_Witness ==
    /\ stop = "breaker"
    /\ response # NoneDict
    /\ (page - 1) * PAGE_LIMIT < response.total

\* C8: the consecutive-failure counter is 0 after any page on which at least
\* one entity succeeded, and the breaker trips only after N consecutive
\* zero-success pages.
C8_CounterReset ==
    /\ (pageHist # <<>> /\ pageHist[Len(pageHist)].success > 0) => consecutive_errors = 0
    /\ stop = "breaker" =>
          \E n \in settings.MAX_CONSECUTIVE_ERRORS : n >= 1 /\ ZeroTail(n)

\* A page with a failed and a successful entity, then a page without any
\* success, then a page with a success: the counter is back at 0.
C8_Witness ==
    /\ Len(pageHist) = 3
    /\ pageHist[1].success > 0 /\ pageHist[1].failed > 0
    /\ pageHist[2].success = 0
    /\ pageHist[3].success > 0
    /\ consecutive_errors = 0

\* The coroutines that hold a permit of the semaphore.
Holders == {t \in TaskSlots : Active(tasks[t]) /\ tasks[t].pc # "wait_sem"}

\* C9: at no moment do more than `concurrency` pipelines hold a permit.
C9_BoundedConcurrency ==
    /\ Cardinality(Holders) <= settings.CONCURRENCY
    /\ semaphore = settings.CONCURRENCY - Cardinality(Holders)

\* Every permit is held while another pipeline of the page waits.
C9_Witness ==
    /\ Cardinality(Holders) = settings.CONCURRENCY
    /\ \E t \in TaskSlots : tasks[t].pc = "wait_sem"

\* C10: the fetch and dispatch of page n+1 begin only after every pipeline
\* of page n has settled, last_page has been set to n and save_state has
\* been called for page n.
C10_PageBarrier ==
    /\ unsettled = 0
    /\ rpc \in {"loop", "list_anime"} => \A t \in TaskSlots : ~Active(tasks[t])
    /\ (rpc \in {"list_anime", "gather"} /\ page > 1) =>
          /\ state.last_page = page - 1
          /\ savedPage = page - 1

\* The pipelines of a later page run after the barrier of the page before.
C10_Witness ==
    /\ rpc = "gather" /\ page > 1
    /\ \E t \in TaskSlots : Active(tasks[t]) /\ tasks[t].pc # "wait_sem"

\* C11: an exception raised inside a pipeline is turned into that pipeline's
\* failure and nothing else: the pipeline settles with result False, the loop
\* keeps waiting for the page, every finished page has counted each
\* dispatched pipeline once as a success or a failure, and the page-boundary
\* steps were taken for it.
C11_ExceptionsContained ==
    /\ \A t \in TaskSlots :
          tasks[t].raised =>
              /\ tasks[t].pc = "done" /\ tasks[t].result = "False"
              /\ rpc = "gather" /\ stop = "none"
    /\ \A i \in DOMAIN pageHist :
          pageHist[i].success + pageHist[i].failed = pageHist[i].dispatched
    /\ Len(pageHist) = savedPage

\* On one page a pipeline raised while the other pipeline succeeded, and the
\* page was finished.
C11_Witness ==
    \E i \in DOMAIN pageHist :
        /\ pageHist[i].raised = 1 /\ pageHist[i].success = 1
        /\ pageHist[i].dispatched = 2
        /\ savedPage >= i

-----------------------------------------------------------------------------
(* parser.utils.RateLimiter, with the coroutines that share it.            *)

\* Time is counted in ticks of 1/TicksPerSecond s; the rates tried are the
\* ones whose interval is a whole number of ticks, and zero and a negative
\* rate.
TicksPerSecond == 2
MaxCallers == 2
MaxAcquires == 3
MaxTime == 4

Rates == {r \in -1 .. TicksPerSecond : r <= 0 \/ TicksPerSecond % r = 0}

RateLimiterUnlimited(rate_per_second) == [rate |-> rate_per_second, min_interval |-> 0, last_request_time |-> {}]

\* RateLimiter.__init__
RateLimiter(rate_per_second) == [rate |-> rate_per_second, min_interval |-> IF rate_per_second > 0 THEN TicksPerSecond \div rate_per_second ELSE 0, last_request_time |-> {}]

Last(lim) == CHOOSE x \in lim.last_request_time : TRUE

\* RateLimiter.acquire up to its await: the call returns at once, or sleeps
\* for min_interval - elapsed.
acquire(lim, now) ==
    IF lim.last_request_time = {}
    THEN [pc |-> "returned", wake |-> now,
          limiter |-> [lim EXCEPT !.last_request_time = {now}]]
    ELSE LET elapsed == now - Last(lim)
         IN  IF elapsed < lim.min_interval
             THEN [pc |-> "sleep", wake |-> now + (lim.min_interval - elapsed),
                   limiter |-> lim]
             ELSE [pc |-> "returned", wake |-> now,
                   limiter |-> [lim EXCEPT !.last_request_time = {now}]]

\* RateLimiter.acquire after asyncio.sleep
acquire_wake(lim, now) == [lim EXCEPT !.last_request_time = {now}]

Started == Len(returns) + Cardinality({c \in DOMAIN callers : callers[c].pc = "sleep"})

LimiterInit ==
    /\ OrchestratorIdle /\ Quiet /\ RequestIdle /\ StateManagerIdle /\ DiffIdle
    /\ clock = 0
    /\ \E rate \in Rates : limiter = RateLimiter(rate)
    /\ \E n \in 1 .. MaxCallers : callers = [c \in 1 .. n |-> [pc |-> "idle", wake |-> 0]]
    /\ returns = <<>>

Tick ==
    /\ clock < MaxTime
    /\ clock' = clock + 1
    /\ UNCHANGED <<limiter, callers, returns>>
    /\ UNCHANGED <<orchVars, reqVars, smVars, diffVars, cliVars, utilVars, dbVars>>

AcquireCall(c) ==
    /\ callers[c].pc = "idle"
    /\ Started < MaxAcquires
    /\ LET r == acquire(limiter, clock)
       IN  /\ limiter' = r.limiter
           /\ callers' = [callers EXCEPT ![c] = [pc |-> IF r.pc = "sleep" THEN "sleep" ELSE "idle", wake |-> r.wake]]
           /\ returns' = IF r.pc = "sleep"
                         THEN returns
                         ELSE Append(returns, [caller |-> c, at |-> clock, waited |-> FALSE])
    /\ UNCHANGED clock
    /\ UNCHANGED <<orchVars, reqVars, smVars, diffVars, cliVars, utilVars, dbVars>>

SleepReturn(c) ==
    /\ callers[c].pc = "sleep"
    /\ clock >= callers[c].wake
    /\ limiter' = acquire_wake(limiter, clock)
    /\ callers' = [callers EXCEPT ![c].pc = "idle"]
    /\ returns' = Append(returns, [caller |-> c, at |-> clock, waited |-> TRUE])
    /\ UNCHANGED clock
    /\ UNCHANGED <<orchVars, reqVars, smVars, diffVars, cliVars, utilVars, dbVars>>

LimiterNext ==
    \/ Tick
    \/ \E c \in DOMAIN callers : AcquireCall(c)
    \/ \E c \in DOMAIN callers : SleepReturn(c)

SpecLimiter == LimiterInit /\ [][LimiterNext]_vars

\* 1/rate, in ticks
Interval == TicksPerSecond \div limiter.rate

\* C14: on a shared RateLimiter with rate > 0, any two acquire() returns are
\* at least 1/rate apart, however many coroutines call it and however they
\* interleave.
C14_SharedMinimumInterval ==
    limiter.rate > 0 =>
        \A i, j \in DOMAIN returns :
            i < j => returns[j].at - returns[i].at >= Interval

\* C15: with one caller and rate > 0 the first acquire() returns without
\* waiting and each later one returns at least 1/rate after the one before;
\* with rate <= 0 no acquire() suspends.
C15_SingleCallerInterval ==
    Len(callers) = 1 =>
        /\ limiter.rate > 0 =>
              /\ \A i \in DOMAIN returns :
                    i > 1 => returns[i].at - returns[i - 1].at >= Interval
              /\ returns # <<>> => ~returns[1].waited
        /\ limiter.rate <= 0 =>
              /\ \A i \in DOMAIN returns : ~returns[i].waited
              /\ callers[1].pc # "sleep"

C15_Witness ==
    /\ Len(callers) = 1 /\ limiter.rate = 1
    /\ Len(returns) = 3
    /\ returns[2].waited /\ ~returns[3].waited
    /\ returns[2].at - returns[1].at = Interval

-----------------------------------------------------------------------------
(* parser.clients.HTTPClient._request: one acquire, then the attempts of   *)
(* the tenacity retry loop.                                                *)

MaxRetries == 2
MaxBackoffBase == 2
MaxBackoffMax == 3
MaxRequests == 2

\* What one attempt ends with: a response with its status, or an exception of
\* the transport.
Statuses == {200, 404, 429, 500}

Raised == {"TimeoutException", "ConnectError", "RemoteProtocolError", "ReadError"}

Outcomes == [kind : {"status"}, code : Statuses] \cup [kind : Raised, code : {0}]

\* response.raise_for_status(): the attempt ends with an exception
Failed(outcome) == outcome.kind # "status" \/ outcome.code >= 400

RECURSIVE Pow2(_)
Pow2(n) == IF n = 0 THEN 1 ELSE 2 * Pow2(n - 1)

Min(a, b) == IF a < b THEN a ELSE b

_should_retry_5xx(exc) == exc.kind = "status" /\ exc.code >= 500

_should_retry(exc) ==
    IF exc.kind = "status"
    THEN exc.code = 429 \/ exc.code >= 500
    ELSE exc.kind \in {"TimeoutException", "ConnectError", "RemoteProtocolError"}

\* should_retry_exception(retry_state)
should_retry_exception(outcome) == IF ~Failed(outcome) THEN FALSE ELSE _should_retry(outcome)

\* stop_after_attempt(settings.MAX_RETRIES + 1)
stop_after_attempt(req) == req.attempt_number >= req.MAX_RETRIES + 1

\* wait_exponential(multiplier, max), in ticks
wait_exponential(req) == TicksPerSecond * Min(req.BACKOFF_BASE_SECONDS * Pow2(req.attempt_number - 1), req.BACKOFF_MAX_SECONDS)

\* parser.utils.exponential_backoff_with_jitter: the delays, in ticks, that
\* min(base * 2^attempt, max) * random.random() can be, random.random()
\* being in [0, 1).
exponential_backoff_with_jitter(attempt, base, max) == {d \in 0 .. TicksPerSecond * Min(base * Pow2(attempt), max) : d < TicksPerSecond * Min(base * Pow2(attempt), max)}

HttpInit ==
    /\ OrchestratorIdle /\ Quiet /\ StateManagerIdle /\ DiffIdle
    /\ clock = 0
    /\ \E rate \in Rates : limiter = RateLimiter(rate)
    /\ callers = <<>>
    /\ returns = <<>>
    /\ \E r \in 0 .. MaxRetries, b \in 1 .. MaxBackoffBase, m \in 1 .. MaxBackoffMax :
           request = [NoRequest EXCEPT !.pc = "idle", !.MAX_RETRIES = r,
                                       !.BACKOFF_BASE_SECONDS = b,
                                       !.BACKOFF_MAX_SECONDS = m]

\* _request is called: rate_limiter.acquire() up to its await
RequestCall ==
    /\ request.pc \in {"idle", "returned", "raised"}
    /\ request.n < MaxRequests
    /\ LET r == acquire(limiter, clock)
       IN  /\ limiter' = r.limiter
           /\ request' = [request EXCEPT
                  !.pc = IF r.pc = "sleep" THEN "acquire" ELSE "send",
                  !.n = @ + 1,
                  !.acquires = 1,
                  !.attempt_number = 0,
                  !.outcomes = <<>>,
                  !.waits = <<>>,
                  !.wake = r.wake]
    /\ UNCHANGED <<clock, callers, returns>>
    /\ UNCHANGED <<orchVars, smVars, diffVars, cliVars, utilVars, dbVars>>

\* rate_limiter.acquire() returns from its sleep
AcquireWake ==
    /\ request.pc = "acquire"
    /\ clock' = request.wake
    /\ limiter' = acquire_wake(limiter, request.wake)
    /\ request' = [request EXCEPT !.pc = "send"]
    /\ UNCHANGED <<callers, returns>>
    /\ UNCHANGED <<orchVars, smVars, diffVars, cliVars, utilVars, dbVars>>

\* One call of _do_request and what the retry loop does with its outcome.
Attempt(outcome) ==
    /\ request.pc = "send"
    /\ LET req == [request EXCEPT !.attempt_number = @ + 1,
                                  !.outcomes = Append(@, outcome)]
       IN  request' =
               IF ~should_retry_exception(outcome)
               THEN [req EXCEPT !.pc = IF Failed(outcome) THEN "raised" ELSE "returned"]
               ELSE IF stop_after_attempt(req)
               THEN [req EXCEPT !.pc = "raised"]
               ELSE [req EXCEPT !.pc = "backoff",
                                !.waits = Append(@, wait_exponential(req)),
                                !.wake = clock + wait_exponential(req)]
    /\ UNCHANGED <<clock, limiter, callers, returns>>
    /\ UNCHANGED <<orchVars, smVars, diffVars, cliVars, utilVars, dbVars>>

\* the sleep between two attempts ends
BackoffWake ==
    /\ request.pc = "backoff"
    /\ clock' = request.wake
    /\ request' = [request EXCEPT !.pc = "send"]
    /\ UNCHANGED <<limiter, callers, returns>>
    /\ UNCHANGED <<orchVars, smVars, diffVars, cliVars, utilVars, dbVars>>

HttpNext ==
    \/ RequestCall
    \/ AcquireWake
    \/ \E outcome \in Outcomes : Attempt(outcome)
    \/ BackoffWake

SpecHttp == HttpInit /\ [][HttpNext]_vars

\* The outcomes the retry policy names as retryable.
Retryable(o) ==
    \/ o.kind = "status" /\ (o.code = 429 \/ o.code >= 500)
    \/ o.kind = "TimeoutException"
    \/ o.kind \in {"ConnectError", "RemoteProtocolError"}

Success(o) == o.kind = "status" /\ o.code < 400

Settled == request.pc \in {"returned", "raised"}

C13_AcquirePerAttempt ==
    Settled => request.acquires = Len(request.outcomes)

\* C16: the delay between attempt i (0-indexed) and attempt i+1 is
\* min(base * 2^i, maxDelay) times a jitter factor in [0,1).
C16_JitteredBackoff ==
    \A i \in DOMAIN request.waits :
        request.waits[i] \in exponential_backoff_with_jitter(i - 1, request.BACKOFF_BASE_SECONDS, request.BACKOFF_MAX_SECONDS)

-----------------------------------------------------------------------------
(* parser.state.StateManager with its file, across stops of the process.   *)

MaxMarks == 2

SmIds == {"1"}
SmTitles == {"A", "B"}
SmAnimePayloads == {NoneDict, [title |-> "A", status |-> None]}
SmEpisodes == {NoneDict, [k \in {"1:1"} |-> [source_episode_id |-> "1:1", number |-> "1"]]}
SmVideos == {NoneDict, EmptyDict, [k \in {"1:1|u|kodik"} |-> [url |-> "u", source_name |-> "kodik"]]}

\* datetime.utcnow().isoformat()
SmNow == Str(sm_call.n)

StateInit ==
    /\ OrchestratorIdle /\ Quiet /\ LimiterIdle /\ RequestIdle /\ DiffIdle
    /\ sm_file = NoFile
    /\ sm_state = _load_state(NoFile)
    /\ sm_pc = "loaded"
    /\ sm_flushed = {}
    /\ sm_call = NoCall

Running == sm_pc \in {"loaded", "ready"}

\* mark_anime_processed(source_id, title, episodes_count, anime_payload,
\* episodes_payload, videos_payload)
Mark(source_id, title, episodes_count, anime_payload, episodes_payload, videos_payload) ==
    /\ Running
    /\ sm_call.n < MaxMarks
    /\ sm_state' = IF mark_anime_processed_raises(sm_state) THEN sm_state
                   ELSE mark_anime_processed(sm_state, source_id, title, episodes_count, anime_payload, episodes_payload, videos_payload, SmNow)
    /\ sm_call' = [fresh |-> ~mark_anime_processed_raises(sm_state),
                   n |-> sm_call.n + 1, source_id |-> source_id,
                   title |-> title, episodes_count |-> episodes_count,
                   timestamp |-> SmNow, anime_payload |-> anime_payload,
                   episodes |-> episodes_payload, videos |-> videos_payload]
    /\ sm_pc' = IF mark_anime_processed_raises(sm_state) THEN "raised" ELSE "ready"
    /\ UNCHANGED <<sm_file, sm_flushed>>
    /\ UNCHANGED <<orchVars, limVars, reqVars, diffVars, cliVars, utilVars, dbVars>>

\* save_state up to the end of open(state_path, "w"): mkdir or open raises
\* and the call returns False, or the file is open and truncated.
SaveOpen(outcome) ==
    /\ Running
    /\ LET saved == save_state(sm_state, sm_file, IF outcome = "opened" THEN "dump_error" ELSE outcome, SmNow)
       IN  /\ sm_state' = saved.state
           /\ sm_file' = saved.file
    /\ sm_pc' = IF outcome = "opened" THEN "saving" ELSE "ready"
    /\ sm_call' = [sm_call EXCEPT !.fresh = FALSE]
    /\ UNCHANGED sm_flushed
    /\ UNCHANGED <<orchVars, limVars, reqVars, diffVars, cliVars, utilVars, dbVars>>

\* save_state from json.dump on: the document is written and the file
\* closed, or json.dump raises and the call returns False.
SaveDump(outcome) ==
    /\ sm_pc = "saving"
    /\ sm_file' = save_state(sm_state, sm_file, outcome, sm_state.last_run).file
    /\ sm_flushed' = IF outcome = "ok" THEN {sm_state} ELSE sm_flushed
    /\ sm_pc' = "ready"
    /\ UNCHANGED <<sm_state, sm_call>>
    /\ UNCHANGED <<orchVars, limVars, reqVars, diffVars, cliVars, utilVars, dbVars>>

\* The process stops: between two calls, or inside save_state with the file
\* open.
Crash ==
    /\ sm_pc \in {"loaded", "ready", "saving"}
    /\ sm_pc' = "stopped"
    /\ sm_call' = [sm_call EXCEPT !.fresh = FALSE]
    /\ UNCHANGED <<sm_state, sm_file, sm_flushed>>
    /\ UNCHANGED <<orchVars, limVars, reqVars, diffVars, cliVars, utilVars, dbVars>>

\* The next run: StateManager(state_path)
Restart ==
    /\ sm_pc = "stopped"
    /\ sm_state' = _load_state(sm_file)
    /\ sm_pc' = "loaded"
    /\ UNCHANGED <<sm_file, sm_flushed, sm_call>>
    /\ UNCHANGED <<orchVars, limVars, reqVars, diffVars, cliVars, utilVars, dbVars>>

StateNext ==
    \/ \E source_id \in SmIds, title \in SmTitles, anime_payload \in SmAnimePayloads, episodes_payload \in SmEpisodes, videos_payload \in SmVideos :
           Mark(source_id, title, 1, anime_payload, episodes_payload, videos_payload)
    \/ \E outcome \in {"mkdir_error", "open_error", "opened"} : SaveOpen(outcome)
    \/ \E outcome \in {"ok", "dump_error"} : SaveDump(outcome)
    \/ Crash
    \/ Restart

SpecState == StateInit /\ [][StateNext]_vars

\* C17: wherever the process stops during a save, the file still holds a
\* complete snapshot, the previous one or the new one, and the next run
\* loads the state last flushed.
C17_CrashSafeSave ==
    /\ sm_pc = "saving" /\ sm_flushed # {} => sm_file.kind = "json"
    /\ sm_pc = "loaded" => \A st \in sm_flushed : sm_state = st

EntryFields == {"title", "episodes_count", "anime_payload", "episodes", "videos"}

Supplied(call) ==
    LET optional == [anime_payload |-> call.anime_payload, episodes |-> call.episodes, videos |-> call.videos]
        fixed == [title |-> call.title, episodes_count |-> Str(call.episodes_count), timestamp |-> call.timestamp]
    IN  [k \in DOMAIN fixed \cup {f \in DOMAIN optional : optional[f] # NoneDict} |->
            IF k \in DOMAIN fixed THEN fixed[k] ELSE optional[k]]

\* C19: after mark_anime_processed the stored entry of source_id is exactly
\* what the call supplied; nothing of the entry stored before is left.
C19_FullReplace ==
    sm_call.fresh =>
        /\ sm_call.source_id \in DOMAIN sm_state.processed_anime
        /\ sm_state.processed_anime[sm_call.source_id] = Supplied(sm_call)

-----------------------------------------------------------------------------
(* parser.utils.compute_diff on its own.                                   *)

DiffKeys == {"a", "b"}
DiffValues == {None, "1", "2"}

\* The dicts with keys among DiffKeys and values among DiffValues.
Dicts == UNION {[keys -> DiffValues] : keys \in SUBSET DiffKeys}

DiffInit ==
    /\ OrchestratorIdle /\ Quiet /\ LimiterIdle /\ RequestIdle /\ StateManagerIdle
    /\ diff_new \in Dicts
    /\ diff_old \in Dicts \cup {NoneDict}
    /\ diff_out = {}

ComputeDiff ==
    /\ diff_out = {}
    /\ diff_out' = {compute_diff(diff_new, diff_old)}
    /\ UNCHANGED <<diff_new, diff_old>>
    /\ UNCHANGED <<orchVars, limVars, reqVars, smVars, cliVars, utilVars, dbVars>>

DiffNext == ComputeDiff

SpecDiff == DiffInit /\ [][DiffNext]_vars

\* The map the contract describes.
ChangedKeys == {k \in DOMAIN diff_new : Get(diff_old, k) # diff_new[k]}

ContractDiff ==
    IF diff_old = NoneDict
    THEN [k \in DOMAIN diff_new |-> [old |-> None, new |-> diff_new[k]]]
    ELSE [k \in ChangedKeys |-> [old |-> Get(diff_old, k), new |-> diff_new[k]]]

\* C20: compute_diff(new, old) is, for old null, every key of new mapped to
\* {old: null, new: new[k]}, and otherwise exactly the keys of new whose
\* value differs from old.get(k), mapped to {old: old.get(k), new: new[k]}.
C20_DiffContract == \A out \in diff_out : out = ContractDiff

-----------------------------------------------------------------------------
(* Further properties of the crawl.                                        *)

-----------------------------------------------------------------------------
(* parser.cli.main: one invocation of the command line.                    *)

\* The arguments argparse accepts: the subcommand run or none, --mode,
\* --source-id (None when absent) and --max-pages.
CliCommands == {"", "run"}
CliModes == {"full", "one"}
CliSourceIds == {None, "", "7", "x"}

\* int(args.source_id) succeeds
IsInt(text) == text = "7"

Exit(c, code, outcome) == [c EXCEPT !.pc = "exited", !.exit = {code}, !.outcome = outcome]

CliInit ==
    /\ OrchestratorIdle /\ LimiterIdle /\ RequestIdle /\ StateManagerIdle /\ DiffIdle
    /\ util_call = NoUtilCall /\ util_value = {} /\ DbIdle
    /\ \E command \in CliCommands, mode \in CliModes, source_id \in CliSourceIds, mp \in MaxPagesArgs :
           cli = [NoCli EXCEPT !.pc = "start", !.command = command, !.mode = mode,
                               !.source_id = source_id, !.max_pages = mp]

\* Lines 57-94: the arguments are validated and the configuration logged.
CliValidate ==
    /\ cli.pc = "start"
    /\ cli' = IF cli.command = "" THEN Exit(cli, 1, "usage")
              ELSE IF cli.mode = "one" /\ cli.source_id \in {None, ""} THEN Exit(cli, 1, "usage")
              ELSE [cli EXCEPT !.pc = "validated"]
    /\ UNCHANGED <<orchVars, limVars, reqVars, smVars, diffVars, utilVars, dbVars>>

\* Lines 97-112: the orchestrator is constructed and process_anime or run
\* is called; int(args.source_id) raises for a text that is no integer.
CliDispatch ==
    /\ cli.pc = "validated"
    /\ cli' = IF cli.mode = "one"
              THEN IF IsInt(cli.source_id)
                   THEN [cli EXCEPT !.pc = "process_anime"]
                   ELSE Exit(cli, 1, "value_error")
              ELSE [cli EXCEPT !.pc = "run"]
    /\ UNCHANGED <<orchVars, limVars, reqVars, smVars, diffVars, utilVars, dbVars>>

\* Lines 103-109 and 115-117: process_anime returns True or False, or
\* raises (lines 70-71 of the orchestrator are outside its try).
CliProcessAnimeReturn(outcome) ==
    /\ cli.pc = "process_anime"
    /\ cli' = IF outcome = "True" THEN Exit(cli, 0, outcome) ELSE Exit(cli, 1, outcome)
    /\ UNCHANGED <<orchVars, limVars, reqVars, smVars, diffVars, utilVars, dbVars>>

\* Lines 112-117: run returns after the loop ended (completed), after its
\* except clause caught an error of the loop (caught), or close() raises in
\* its finally clause (close_raises).
CliRunReturn(outcome) ==
    /\ cli.pc = "run"
    /\ cli' = IF outcome = "close_raises" THEN Exit(cli, 1, outcome) ELSE Exit(cli, 0, outcome)
    /\ UNCHANGED <<orchVars, limVars, reqVars, smVars, diffVars, utilVars, dbVars>>

CliNext ==
    \/ CliValidate
    \/ CliDispatch
    \/ \E outcome \in {"True", "False", "raise"} : CliProcessAnimeReturn(outcome)
    \/ \E outcome \in {"completed", "caught", "close_raises"} : CliRunReturn(outcome)

SpecCli == CliInit /\ [][CliNext]_vars

\* Processing was started and came to its end; an error escaped the
\* orchestrator.
Completed == cli.outcome \in {"True", "False", "completed", "caught"}
Unhandled == cli.outcome \in {"raise", "close_raises"}
Processed == Completed \/ Unhandled

\* C22: once processing was started, the exit code is 0 when it completed,
\* whatever number of entities failed, and it is non-zero only when an error
\* escaped the orchestrator.
C22_ExitCode ==
    cli.pc = "exited" /\ Processed =>
        /\ Completed => cli.exit = {0}
        /\ cli.exit # {0} => Unhandled

-----------------------------------------------------------------------------
(* Functions of parser.utils called on their own.                          *)

MaxShikimoriId == 12
MaxEpisodeNumber == 12
MaxPriority == 1

\* The urls tried: None, and every text made of optional surrounding
\* whitespace, a stem and an extension.
RawUrls == {NoneDict} \cup [ws : BOOLEAN, stem : {"", "cdn/a"}, suffix : {"", ".m3u8", ".M3U8", ".mp4"}]

UtilsInit ==
    /\ OrchestratorIdle /\ LimiterIdle /\ RequestIdle /\ StateManagerIdle /\ DiffIdle
    /\ cli = NoCli /\ DbIdle
    /\ \/ \E url \in RawUrls, priority \in 0 .. MaxPriority :
              util_call = [fn |-> "normalize_video_source", args |-> <<url, "kodik", priority>>]
       \/ \E shikimori_id \in 1 .. MaxShikimoriId, episode_number \in 0 .. MaxEpisodeNumber :
              util_call = [fn |-> "generate_episode_source_id", args |-> <<shikimori_id, episode_number>>]
    /\ util_value = {}

NormalizeVideoSource ==
    /\ util_call.fn = "normalize_video_source"
    /\ util_value = {}
    /\ util_value' = {normalize_video_source(util_call.args[1], util_call.args[2], util_call.args[3])}
    /\ UNCHANGED util_call
    /\ UNCHANGED <<orchVars, limVars, reqVars, smVars, diffVars, cliVars, dbVars>>

\* generate_episode_source_id(generate_source_id(shikimori_id), episode_number)
GenerateEpisodeSourceId ==
    /\ util_call.fn = "generate_episode_source_id"
    /\ util_value = {}
    /\ util_value' = {generate_episode_source_id(generate_source_id(util_call.args[1]), util_call.args[2])}
    /\ UNCHANGED util_call
    /\ UNCHANGED <<orchVars, limVars, reqVars, smVars, diffVars, cliVars, dbVars>>

UtilsNext == NormalizeVideoSource \/ GenerateEpisodeSourceId

SpecUtils == UtilsInit /\ [][UtilsNext]_vars

\* Text helpers of the properties: does text end in suffix; text in lower
\* case (for the letters of the urls tried); text cut at its first sep.
EndsWith(text, suffix) ==
    /\ Len(text) >= Len(suffix)
    /\ SubSeq(text, Len(text) - Len(suffix) + 1, Len(text)) = suffix

LowerChar(c) ==
    CASE c = "M" -> "m"
      [] c = "U" -> "u"
      [] OTHER -> c

RECURSIVE LowerText(_)
LowerText(text) ==
    IF text = "" THEN "" ELSE LowerChar(SubSeq(text, 1, 1)) \o LowerText(SubSeq(text, 2, Len(text)))

RECURSIVE Find(_, _, _)
Find(text, sep, i) ==
    IF i > Len(text) THEN 0
    ELSE IF SubSeq(text, i, i) = sep THEN i
    ELSE Find(text, sep, i + 1)

SplitFirst(text, sep) ==
    LET i == Find(text, sep, 1)
    IN  IF i = 0 THEN <<text>>
        ELSE <<SubSeq(text, 1, i - 1), SubSeq(text, i + 1, Len(text))>>

\* The url of a call as a text, and without its surrounding whitespace.
RawText(url) == (IF url.ws THEN " " ELSE "") \o url.stem \o url.suffix \o (IF url.ws THEN " " ELSE "")
Trimmed(url) == url.stem \o url.suffix

\* What normalize_video_source is to return for a url that passes.
Link(url, source_name, priority) ==
    [type |-> "hls", url |-> Trimmed(url), source_name |-> source_name, priority |-> Str(priority)]

NormalizeCall == util_call.fn = "normalize_video_source"

\* C23 as worded: null for a null, empty or blank url and for a url that
\* does not end in .m3u8, otherwise exactly {type: "hls", url: the trimmed
\* url, source_name, priority}.
C23_NormalizeLiteral ==
    NormalizeCall =>
        \A out \in util_value :
            LET url == util_call.args[1]
            IN  IF url = NoneDict THEN out = NoneDict
                ELSE IF RawText(url) = "" \/ Trimmed(url) = "" THEN out = NoneDict
                ELSE IF ~EndsWith(Trimmed(url), ".m3u8") THEN out = NoneDict
                ELSE out = Link(url, util_call.args[2], util_call.args[3])

\* C23, amended: the extension is compared ignoring case; the url returned
\* is the trimmed url with its case kept.
C23_NormalizeIgnoringCase ==
    NormalizeCall =>
        \A out \in util_value :
            LET url == util_call.args[1]
            IN  IF url = NoneDict THEN out = NoneDict
                ELSE IF RawText(url) = "" \/ Trimmed(url) = "" THEN out = NoneDict
                ELSE IF ~EndsWith(LowerText(Trimmed(url)), ".m3u8") THEN out = NoneDict
                ELSE out = Link(url, util_call.args[2], util_call.args[3])

C23_Witness ==
    /\ NormalizeCall
    /\ util_call.args[1] # NoneDict
    /\ util_call.args[1].ws /\ util_call.args[1].suffix = ".M3U8"
    /\ \E out \in util_value : out # NoneDict /\ out.url = "cdn/a.M3U8"

\* C24: for a source id made by generate_source_id and an episode number,
\* the episode id is "{sourceId}:{number}"; cutting it at its first ':'
\* gives back (sourceId, str(number)); no other pair has the same id.
C24_EpisodeIdRoundTrip ==
    util_call.fn = "generate_episode_source_id" =>
        \A out \in util_value :
            LET source_id == generate_source_id(util_call.args[1])
                number == util_call.args[2]
            IN  /\ out = source_id \o ":" \o Str(number)
                /\ out = generate_episode_source_id(source_id, number)
                /\ SplitFirst(out, ":") = <<source_id, Str(number)>>
                /\ \A id \in 1 .. MaxShikimoriId, n \in 0 .. MaxEpisodeNumber :
                       generate_episode_source_id(generate_source_id(id), n) = out
                           => id = util_call.args[1] /\ n = number

C24_Witness ==
    /\ util_call.fn = "generate_episode_source_id"
    /\ util_call.args = <<11, 2>>
    /\ util_value = {"11:2"}

-----------------------------------------------------------------------------
(* Further properties of process_anime.                                    *)

\* Coroutine t has returned True (it has marked its entity processed).
Succeeded(t) == tasks[t].pc = "done" /\ tasks[t].result = "True"

\* The media map stored for the entity of t when t started, and now.
VideosBefore(t) == EntryGet(tasks[t].entry0, "videos", EmptyDict)
VideosAfter(t) == EntryGet(GetDict(state.processed_anime, SourceId(tasks[t])), "videos", EmptyDict)

VideoCalls(t) == {c.key : c \in {x \in calls : x.task = t /\ x.page = page /\ x.kind = "video"}}
VideoFailures(t) == VideoCalls(t) \ DOMAIN tasks[t].latest_video_payloads

WorkKeys(t) ==
    {_video_key(Work(tasks[t])[k].episode_source_id, Work(tasks[t])[k].player_data) :
        k \in DOMAIN Work(tasks[t])}

\* C26: a pipeline in which an import_video call failed has still decided
\* on every link of the entity and submitted every new or changed one, has
\* counted the failures, marked the entity processed and returned True; a
\* link whose import failed is not in the stored media map.
C26_MediaFailureTolerated ==
    \A t \in TaskSlots :
        (tasks[t].pc = "done" /\ tasks[t].video_import_errors > 0) =>
            /\ tasks[t].result = "True"
            /\ tasks[t].stages[Len(tasks[t].stages)] = "mark_processed"
            /\ Cardinality(VideoFailures(t)) = tasks[t].video_import_errors
            /\ \A key \in WorkKeys(t) : \E d \in tasks[t].gate : d.kind = "video" /\ d.key = key
            /\ \A d \in tasks[t].gate : (d.kind = "video" /\ Changed(d)) => d.key \in VideoCalls(t)
            /\ Alone(t) => VideoFailures(t) \cap DOMAIN VideosAfter(t) = {}

C26_Witness ==
    \E t \in TaskSlots :
        /\ Succeeded(t) /\ Alone(t)
        /\ tasks[t].video_import_errors = 1
        /\ Cardinality(VideoCalls(t)) = 2
        /\ \E k1, k2 \in DOMAIN Work(tasks[t]) :
              /\ k1 < k2
              /\ _video_key(Work(tasks[t])[k1].episode_source_id, Work(tasks[t])[k1].player_data) \in VideoFailures(t)
              /\ _video_key(Work(tasks[t])[k2].episode_source_id, Work(tasks[t])[k2].player_data) \in DOMAIN VideosAfter(t)

\* The episode has a translation whose link normalize_video_source accepts.
HasLink(ep) ==
    \E j \in DOMAIN ep.translations :
        normalize_video_source(ep.translations[j], "kodik", j - 1) # NoneDict

EpisodeKey(t, ep) == generate_episode_source_id(SourceId(tasks[t]), ep.number)

\* Coroutine t has been through the loop over its parsed episodes.
PastEpisodes(t) == tasks[t].pc \in {"import_episodes", "import_video"} \/ Succeeded(t)

\* C27: every parsed episode gets a payload whose is_available is true
\* exactly when the episode has a valid media link, and every new or changed
\* one is in the batch, with or without links.
C27_UnavailableEpisodesImported ==
    \A t \in TaskSlots :
        PastEpisodes(t) =>
            \A i \in DOMAIN EpisodesData(tasks[t]) :
                LET ep == EpisodesData(tasks[t])[i]
                IN  \E d \in tasks[t].gate :
                        /\ d.kind = "episode" /\ d.key = EpisodeKey(t, ep)
                        /\ d.candidate.is_available = PyBool(HasLink(ep))
                        /\ Changed(d) => Sent(t, d)

C27_Witness ==
    \E t \in TaskSlots :
        /\ PastEpisodes(t)
        /\ \E i \in DOMAIN EpisodesData(tasks[t]) : \E d \in tasks[t].gate :
              /\ ~HasLink(EpisodesData(tasks[t])[i])
              /\ d.kind = "episode" /\ d.key = EpisodeKey(t, EpisodesData(tasks[t])[i])
              /\ d.candidate.is_available = "False"
              /\ Sent(t, d)

\* The number of import_video calls coroutine t has made.
VideoCallCount(t) == Cardinality({i \in DOMAIN tasks[t].stages : tasks[t].stages[i] = "import_video"})

\* C28: a pipeline makes at most one import_video call per key
\* episodeId|url|sourceName: its calls are as many as the keys called.
C28_OneCallPerKey ==
    \A t \in TaskSlots :
        tasks[t].pc # "idle" => VideoCallCount(t) = Cardinality(VideoCalls(t))

\* Two raw translations of episode 1 of entity 1 normalize to the same url;
\* the pipeline has made its one call for it and finished.
C28_Witness ==
    \E t \in TaskSlots :
        /\ Succeeded(t) /\ tasks[t].id = 1
        /\ VideoCallCount(t) = 1
        /\ VideoCalls(t) = {"1:1|cdn/a.m3u8|kodik"}
        /\ \E j1, j2 \in DOMAIN EpisodesData(tasks[t])[1].translations :
              /\ j1 # j2
              /\ normalize_video_source(EpisodesData(tasks[t])[1].translations[j1], "kodik", 0)
                     = normalize_video_source(EpisodesData(tasks[t])[1].translations[j2], "kodik", 0)
              /\ normalize_video_source(EpisodesData(tasks[t])[1].translations[j1], "kodik", 0) # NoneDict

-----------------------------------------------------------------------------
(* Keys of the new record that the previous snapshot lacks.                *)

\* The keys of new that a non-null old does not have.
AbsentKeys == IF diff_old = NoneDict THEN {} ELSE DOMAIN diff_new \ DOMAIN diff_old

\* C30: every key present in new but absent from a non-null old is reported
\* by compute_diff with old = null and its new value, whatever that value is
\* (a null new value included).
C30_AbsentKeyReported ==
    \A out \in diff_out : \A k \in AbsentKeys :
        /\ k \in DOMAIN out
        /\ out[k] = [old |-> None, new |-> diff_new[k]]

-----------------------------------------------------------------------------
(* The stop conditions of the crawl loop.                                  *)

\* The loop has ended for one of its stop conditions.
Stopped == rpc = "closing" /\ stop \in {"max_pages", "breaker", "last_page", "no_results"}

\* A limit of at least one page is configured and as many pages are done.
MaxPagesReached == \E k \in max_pages : k >= 1 /\ Len(pageHist) >= k

-----------------------------------------------------------------------------
(* The steady state of the crawl.                                          *)

ImportStages == {"import_anime", "import_episodes", "import_video"}

\* A run after the first one, over sources unchanged since a fully
\* successful, flushed run.
SteadyRun == run >= 2 /\ AfterCleanRun

-----------------------------------------------------------------------------
(* An entity listed more than once on a catalog page.                      *)

\* The import calls of one kind issued for entity id on the current page.
PageCalls(kind, id) ==
    {c \in calls : c.kind = kind /\ c.page = page /\ tasks[c.task].id = id}

-----------------------------------------------------------------------------
(* The first iteration of the crawl loop.                                  *)

\* The loop has ended before any page was finished.
EndedOnFirstPage == rpc = "closing" /\ page = 1 /\ pageHist = <<>>

\* C33: the circuit-breaker threshold is a defined setting: a loop that ends
\* in its first iteration has reached the catalog fetch of page 1 (the fetch
\* failed or returned no results) and did not end with an error before it.
C33_ThresholdDefined ==
    EndedOnFirstPage => stop \in {"list_failed", "no_results"}

-----------------------------------------------------------------------------
(* A catalog page that cannot be fetched.                                  *)

\* list_anime has returned None.
FetchFails == rpc = "list_anime" /\ rpc' # "list_anime" /\ response' = NoneDict

\* C34: when list_anime returns None the loop ends without an error: the
\* failure counter, the page number, the crawl state (lastPage included) and
\* the state file are left as they were, and no page is fetched afterwards
\* in the run.
C34_FetchFailureEndsRun ==
    /\ [](stop = "list_failed" => rpc \in {"closing", "idle"})
    /\ [][FetchFails =>
            /\ rpc' = "closing" /\ stop' = "list_failed"
            /\ consecutive_errors' = consecutive_errors
            /\ page' = page
            /\ state' = state
            /\ stateFile' = stateFile
            /\ savedPage' = savedPage]_vars

\* The fetch of page 2 has failed after a page 1 without any success.
C34_Witness ==
    /\ rpc = "closing" /\ stop = "list_failed"
    /\ page = 2
    /\ consecutive_errors = 1
    /\ state.last_page = 1
    /\ stateFile = json_dump(state)

-----------------------------------------------------------------------------
(* A catalog page none of whose items carries an external id.              *)

\* gather returns for a page on which no pipeline was dispatched.
EmptyPageEnds == rpc = "gather" /\ rpc' # "gather" /\ TaskIds(response.results) = <<>>

\* C35: a page on which no entity pipeline was dispatched counts as an
\* all-failed page: it increments the consecutive-failure counter by one.
C35_EmptyPageCountsAsFailed ==
    [][EmptyPageEnds => consecutive_errors' = consecutive_errors + 1]_vars

\* The breaker has stopped the run after a page on which no pipeline was
\* dispatched and so no entity failed.
C35_Witness ==
    /\ stop = "breaker"
    /\ pageHist # <<>>
    /\ pageHist[Len(pageHist)].dispatched = 0
    /\ pageHist[Len(pageHist)].failed = 0

-----------------------------------------------------------------------------
(* The persisted last page and the pages a run fetches.                    *)

\* C36: whatever last_page the run loaded from the state file, the pages it
\* fetches are 1, 2, 3, ... in order: the page being fetched or processed is
\* the one after the pages the run has finished.
C36_PagesIgnoreLastPage ==
    rpc \in {"loop", "list_anime", "gather"} => page = Len(pageHist) + 1

\* A run that loaded last_page = 3 fetches page 1.
C36_Witness ==
    /\ rpc = "list_anime"
    /\ page = 1
    /\ loaded.last_page = 3

-----------------------------------------------------------------------------
(* A StateManager constructed on a state file of any content.              *)

MaxLastPage == 2

ArrayDocument == [kind |-> "json", doc |-> [j |-> "array"]]

ObjectDocument(members) == [kind |-> "json", doc |-> [j |-> "object", members |-> members]]

\* A state with one stored entity, as save_state writes it.
StoredState ==
    [last_run |-> "1", last_page |-> 1,
     processed_anime |-> [k \in {"1"} |-> [title |-> "A", episodes_count |-> "1", timestamp |-> "1"]]]

\* The file is missing, unparseable, a document save_state wrote, or valid
\* JSON of another shape: [], {}, {"last_page": 3}, or the three keys with
\* "processed_anime": null.
LoadInit ==
    /\ OrchestratorIdle /\ Quiet /\ LimiterIdle /\ RequestIdle /\ DiffIdle
    /\ \/ sm_file = NoFile
       \/ sm_file = CorruptFile
       \/ sm_file = json_dump(FreshState)
       \/ sm_file = json_dump(StoredState)
       \/ sm_file = ArrayDocument
       \/ sm_file = ObjectDocument(EmptyDict)
       \/ sm_file = ObjectDocument([last_page |-> JsonNumber(3)])
       \/ sm_file = ObjectDocument([last_run |-> JsonScalar(None),
                                    last_page |-> JsonNumber(0),
                                    processed_anime |-> JsonScalar(None)])
    /\ sm_state = _load_state(sm_file)
    /\ sm_pc = "loaded"
    /\ sm_flushed = {}
    /\ sm_call = NoCall

\* get_anime_entry(source_id)
GetAnimeEntry(source_id) ==
    /\ Running
    /\ sm_pc' = IF get_anime_entry_raises(sm_state) THEN "raised" ELSE "ready"
    /\ sm_call' = [sm_call EXCEPT !.fresh = FALSE]
    /\ UNCHANGED <<sm_state, sm_file, sm_flushed>>
    /\ UNCHANGED <<orchVars, limVars, reqVars, diffVars, cliVars, utilVars, dbVars>>

\* set_last_page(page), page being number
SetLastPage(number) ==
    /\ Running
    /\ sm_state' = IF set_last_page_raises(sm_state) THEN sm_state
                   ELSE set_last_page(sm_state, number)
    /\ sm_pc' = IF set_last_page_raises(sm_state) THEN "raised" ELSE "ready"
    /\ sm_call' = [sm_call EXCEPT !.fresh = FALSE]
    /\ UNCHANGED <<sm_file, sm_flushed>>
    /\ UNCHANGED <<orchVars, limVars, reqVars, diffVars, cliVars, utilVars, dbVars>>

LoadNext ==
    \/ \E source_id \in SmIds, title \in SmTitles, anime_payload \in SmAnimePayloads, episodes_payload \in SmEpisodes, videos_payload \in SmVideos :
           Mark(source_id, title, 1, anime_payload, episodes_payload, videos_payload)
    \/ \E source_id \in SmIds : GetAnimeEntry(source_id)
    \/ \E n \in 1 .. MaxLastPage : SetLastPage(n)

SpecLoad == LoadInit /\ [][LoadNext]_vars

\* The state is a dict with a last_page value and a processed_anime map.
WellFormed(st) ==
    /\ st # PyList
    /\ {"last_page", "processed_anime"} \subseteq DOMAIN st
    /\ st.processed_anime # NoneDict

\* C37: whatever the state file holds, the loaded state has a last_page value
\* and a processed_anime map, and no call of get_anime_entry,
\* mark_anime_processed or set_last_page on it raises.
C37_LoadedStateUsable ==
    /\ sm_pc = "loaded" => WellFormed(sm_state)
    /\ sm_pc # "raised"

-----------------------------------------------------------------------------
(* Termination of a run.                                                   *)

\* The steps of a run in progress, the start of a run and the return of
\* import_video excepted.
Steps ==
    \/ LoopTop
    \/ \E resp \in {NoneDict, CatalogPage(catalog, page)} : ListAnimeReturn(resp)
    \/ \E t \in TaskSlots : Acquire(t)
    \/ \E t \in TaskSlots, found \in BOOLEAN : GetAnimeReturn(t, found)
    \/ \E t \in TaskSlots : GetAnimeRaises(t)
    \/ \E t \in TaskSlots, success \in BOOLEAN : ImportAnimeReturn(t, success)
    \/ \E t \in TaskSlots, outcome \in {"None", "empty", "results"} :
           GetEpisodesReturn(t, outcome)
    \/ \E t \in TaskSlots, success \in BOOLEAN : ImportEpisodesReturn(t, success)
    \/ \E outcome \in SaveOutcomes : PageEnd(outcome)
    \/ Close

\* One run of a new orchestrator.
LiveNext ==
    \/ \E mp \in MaxPagesArgs : run = 0 /\ StartRun(mp, "v1")
    \/ Steps
    \/ \E t \in TaskSlots, success \in BOOLEAN : ImportVideoReturn(t, success)

\* Every network call returns or fails, and the event loop runs a coroutine
\* that can run: a run in progress does not stop taking the steps it can
\* take, and no coroutine waits for the return of import_video for ever
\* (that step is enabled exactly where the coroutine is at import_video).
SpecLive ==
    /\ Init /\ [][LiveNext]_vars
    /\ WF_vars(Steps)
    /\ \A t \in TaskSlots : []<>(tasks[t].pc # "import_video")

\* C38: every dispatched pipeline eventually settles, and a run in progress
\* eventually ends with the clients closed and every permit of the semaphore
\* released.
C38_RunTerminates ==
    /\ \A t \in TaskSlots : (tasks[t].pc = "wait_sem") ~> (tasks[t].pc = "done")
    /\ (rpc # "idle") ~> (rpc = "idle" /\ semaphore = settings.CONCURRENCY)

\* A run has ended after a page on which two pipelines shared one permit.
C38_Witness ==
    /\ rpc = "idle" /\ run >= 1
    /\ settings.CONCURRENCY = 1
    /\ semaphore = 1
    /\ pageHist # <<>>
    /\ pageHist[1].dispatched = 2

-----------------------------------------------------------------------------
(* The command line in mode one, after or before a crawl of the catalog.   *)

\* Variant of OneReturn: the command saves the state before it exits.
OneReturnSaves ==
    /\ cli.pc = "process_anime"
    /\ tasks[1].pc = "done"
    /\ cli' = Exit(cli, IF tasks[1].result = "True" THEN 0 ELSE 1, tasks[1].result)
    /\ state' = save_state(state, stateFile, "ok", Now).state
    /\ stateFile' = save_state(state, stateFile, "ok", Now).file
    /\ UNCHANGED <<limVars, reqVars, smVars, diffVars, utilVars, dbVars>>
    /\ UNCHANGED <<envVars, loopVars, run, semaphore, tasks, orphans, saveErrors,
                   calls, pageHist, savedPage, unsettled, clean, backend, rejected,
                   forgotten, prevRun, loaded>>

\* cli.py lines 97-103: ParserOrchestrator() loads the state file, and
\* process_anime(int(args.source_id)) is called.
OneStart(id) ==
    /\ rpc = "idle"
    /\ cli = NoCli
    /\ cli' = [NoCli EXCEPT !.pc = "process_anime", !.command = "run", !.mode = "one",
                            !.source_id = Str(id)]
    /\ state' = _load_state(stateFile)
    /\ loaded' = _load_state(stateFile)
    /\ semaphore' = settings.CONCURRENCY
    /\ tasks' = [t \in TaskSlots |->
                    IF t = 1 THEN [NoTask EXCEPT !.pc = "wait_sem", !.id = id] ELSE NoTask]
    /\ orphans' = EmptyDict
    /\ calls' = {}
    /\ UNCHANGED <<limVars, reqVars, smVars, diffVars, utilVars, dbVars>>
    /\ UNCHANGED <<envVars, loopVars, stateFile, run, saveErrors, pageHist, savedPage,
                   unsettled, clean, backend, rejected, forgotten, prevRun>>

\* cli.py lines 103-109: process_anime has returned; sys.exit(0) or
\* sys.exit(1).  Nothing is saved and no client is closed.
OneReturn ==
    /\ cli.pc = "process_anime"
    /\ tasks[1].pc = "done"
    /\ cli' = Exit(cli, IF tasks[1].result = "True" THEN 0 ELSE 1, tasks[1].result)
    /\ UNCHANGED <<orchVars, limVars, reqVars, smVars, diffVars, utilVars, dbVars>>

\* One crawl of the catalog and one command in mode one, in either order.
OneNext ==
    \/ \E mp \in MaxPagesArgs : run = 0 /\ cli.pc # "process_anime" /\ StartRun(mp, "v1")
    \/ Steps
    \/ \E t \in TaskSlots, success \in BOOLEAN : ImportVideoReturn(t, success)
    \/ \E id \in Ids : OneStart(id)
    \/ OneReturn

SpecOne == Init /\ [][OneNext]_vars

\* The command in mode one is in progress before or after the step.
InModeOne == cli.pc = "process_anime" \/ cli'.pc = "process_anime"

\* C39: no step of the command in mode one, from the construction of the
\* orchestrator to the exit, changes the state file.
C39_ModeOneNeverSaves == [][InModeOne => stateFile' = stateFile]_vars

\* The command has exited after a successful pipeline, and the state in
\* memory holds an entity the file does not.
C39_Witness ==
    /\ cli.pc = "exited" /\ cli.outcome = "True"
    /\ \E sid \in DOMAIN state.processed_anime :
           sid \notin DOMAIN _load_state(stateFile).processed_anime

-----------------------------------------------------------------------------
(* The backend's import_episodes endpoint (app/api/v1/internal.py).        *)

MaxBatch == 2

EpisodeSourceIds == {"1:1", "1:2"}
EpisodeTitles == {None, "t", "u"}

\* The episode number the parser derives the id from.
NumberOf(source_episode_id) == IF source_episode_id = "1:1" THEN 1 ELSE 2

\* EpisodeImportItem
EpisodeImportItems ==
    {[source_episode_id |-> id, number |-> NumberOf(id), title |-> title, is_available |-> a] :
        id \in EpisodeSourceIds, title \in EpisodeTitles, a \in BOOLEAN}

\* The Episode rows of one anime, by source_episode_id.
EpisodeRows == [number : {1, 2}, title : EpisodeTitles, is_active : BOOLEAN]

EpisodeTables ==
    UNION {{tb \in [ids -> EpisodeRows] : \A id \in ids : tb[id].number = NumberOf(id)} :
              ids \in SUBSET EpisodeSourceIds}

\* Lines 166-182: one item of the batch updates the row it names or creates
\* it.
import_episode(table, ep_data) ==
    IF ep_data.source_episode_id \in DOMAIN table
    THEN LET episode == table[ep_data.source_episode_id]
         IN [table EXCEPT ![ep_data.source_episode_id] =
                [number |-> ep_data.number,
                 title |-> ep_data.title,
                 is_active |-> IF episode.is_active \/ ep_data.is_available
                               THEN ep_data.is_available ELSE episode.is_active]]
    ELSE Put(table, ep_data.source_episode_id,
             [number |-> ep_data.number, title |-> ep_data.title,
              is_active |-> ep_data.is_available])

\* Lines 155-192: the items of the batch in order.
RECURSIVE import_episodes(_, _)
import_episodes(table, episodes) ==
    IF episodes = <<>> THEN table
    ELSE import_episodes(import_episode(table, Head(episodes)), Tail(episodes))

\* The database holds the anime with any rows, or no anime and no row.
BackendInit ==
    /\ OrchestratorIdle /\ LimiterIdle /\ RequestIdle /\ StateManagerIdle /\ DiffIdle
    /\ cli = NoCli /\ util_call = NoUtilCall /\ util_value = {}
    /\ db_anime \in BOOLEAN
    /\ db_episodes \in EpisodeTables
    /\ ~db_anime => db_episodes = EmptyDict
    /\ db_result = {}

\* POST /import/episodes: 404 where the anime is unknown, else the batch is
\* applied and committed.
ImportEpisodes(episodes) ==
    /\ db_episodes' = IF db_anime THEN import_episodes(db_episodes, episodes) ELSE db_episodes
    /\ db_result' = IF db_anime THEN {[status |-> 200, imported |-> Len(episodes)]}
                    ELSE {[status |-> 404, imported |-> 0]}
    /\ UNCHANGED db_anime
    /\ UNCHANGED <<orchVars, limVars, reqVars, smVars, diffVars, cliVars, utilVars>>

BackendNext ==
    \E n \in 1 .. MaxBatch : \E episodes \in [1 .. n -> EpisodeImportItems] :
        ImportEpisodes(episodes)

SpecBackend == BackendInit /\ [][BackendNext]_vars

\* C40: an episode whose is_active was false before an import_episodes call
\* has is_active false after it, whatever is_available the call sends.
C40_ManualDisableKept ==
    [][\A id \in DOMAIN db_episodes :
          ~db_episodes[id].is_active => ~db_episodes'[id].is_active]_vars

====
